---- MODULE Spec2Model ----
(***************************************************************************)
(* State-machine model of the risk and position-lifecycle core of          *)
(* AlphaArena: RollTracker (roll_tracker.py), TrailingStopManager          *)
(* (trailing_stop_manager.py), PerformanceTracker (performance_tracker.py) *)
(* and RiskManager (risk_manager.py), with the orchestrator that drives    *)
(* them (alpha_arena_bot.py, ai_trading_engine.py).                        *)
(*                                                                         *)
(* Each public method is one action.  The variable `call` records the last *)
(* call made (operation, symbol, arguments, returned value), so that a     *)
(* property about what a call returns is a property of states.             *)
(* Wall-clock stamps (created_at, last_updated, time, close_time) are not  *)
(* modelled: no decision of the code reads them.                           *)
(***************************************************************************)
EXTENDS Integers, Sequences, FiniteSets, TLC

VARIABLES
    rollData,        \* RollTracker.data: dict symbol -> roll record
    rollFile,        \* content of roll_state.json
    trailing_stops,  \* TrailingStopManager.trailing_stops: dict symbol -> stop_data
    trades,          \* PerformanceTracker.data['trades']
    portfolio_values, \* PerformanceTracker.data['portfolio_values']
    initial_capital, \* PerformanceTracker.initial_capital
    dashboard_data,  \* web_dashboard's PerformanceTracker.data, once it runs
    pending_orders,  \* the exchange: <<symbol, type>> of each pending protective order
    perfFile,        \* content of performance_data.json : its trades and snapshots
    writeFaults,     \* number of file writes that have failed so far
    daily_pnl,       \* RiskManager.daily_pnl
    initial_balance, \* RiskManager.initial_balance
    peak_balance,    \* RiskManager.peak_balance
    daily_trades,    \* RiskManager.daily_trades
    call             \* the last call: [op, sym, arg, ret]

rollVars == <<rollData, rollFile>>
tsVars   == <<trailing_stops>>
perfVars == <<trades, portfolio_values, initial_capital, perfFile>>
riskVars == <<daily_pnl, initial_balance, peak_balance, daily_trades>>
exVars   == <<pending_orders>>
dashVars == <<dashboard_data>>
vars     == <<rollData, rollFile, trailing_stops, trades, portfolio_values,
             initial_capital, perfFile, writeFaults,
             daily_pnl, initial_balance, peak_balance, daily_trades,
             pending_orders, dashboard_data, call>>

(***************************************************************************)
(* Bounds and input sets                                                   *)
(***************************************************************************)
Symbols == {"BTCUSDT", "ETHUSDT"}
Sides   == {"LONG", "SHORT"}

\* Python's None, where a number may stand: a value no number of the model equals
None == -(10 ^ 6)

\* the value of `call` before any call is made
NoCall == [op |-> "none", sym |-> None, arg |-> <<>>, ret |-> None]

\* at most this many file writes fail in one behaviour
MaxWriteFaults == 1

\* entry prices handed to RollTracker
RollPrices == {100, 105}
\* positions as the exchange reports them: signed amount (negative: short) and side
RollPositions == {[amt |-> -2, side |-> "SHORT"], [amt |-> 3, side |-> "LONG"]}
\* the roll_details dictionaries handed to increment_roll_count
RollDetails ==
    {[current_price |-> 110, unrealized_pnl |-> 12, profit_pct |-> 7,
      reinvest_amount |-> 6, new_position_qty |-> 1, leverage |-> 5]}

Abs(x) == IF x < 0 THEN -x ELSE x
Max(a, b) == IF a >= b THEN a ELSE b
Min(a, b) == IF a <= b THEN a ELSE b

(***************************************************************************)
(* Python dict helpers                                                     *)
(***************************************************************************)
EmptyDict == [k \in {} |-> None]
Has(d, k) == k \in DOMAIN d
Put(d, k, v) == [x \in DOMAIN d \cup {k} |-> IF x = k THEN v ELSE d[x]]
Del(d, k) == [x \in DOMAIN d \ {k} |-> d[x]]

(***************************************************************************)
(* File writes: `open(file, 'w')` followed by json.dump, any exception     *)
(* caught and logged.  The write succeeds ("ok"), fails before the file is *)
(* truncated ("open_failed") or fails after it ("dump_failed", leaving a   *)
(* document that does not parse).  The outcome is an input of the action   *)
(* that writes; the code never reads the file back after construction.     *)
(***************************************************************************)
Absent  == "absent"
Partial == "partial"

WriteOutcomes ==
    IF writeFaults < MaxWriteFaults THEN {"ok", "open_failed", "dump_failed"} ELSE {"ok"}

Written(old, doc, outcome) ==
    CASE outcome = "ok"          -> doc
      [] outcome = "open_failed" -> old
      [] outcome = "dump_failed" -> Partial

Faults(outcome) == IF outcome = "ok" THEN writeFaults ELSE writeFaults + 1

(***************************************************************************)
(* RollTracker                                                             *)
(***************************************************************************)
\* the hard-coded limit of 6 rolls
MaxRollCount == 6

GetRollCount(data, symbol) ==
    IF ~Has(data, symbol) THEN 0 ELSE data[symbol].roll_count

GetOriginalEntryPrice(data, symbol) ==
    IF ~Has(data, symbol) THEN None ELSE data[symbol].original_entry_price

GetRollHistory(data, symbol) ==
    IF ~Has(data, symbol) THEN <<>> ELSE data[symbol].roll_history

NewRollRecord(symbol, entry_price, position_amt, side) ==
    [symbol                |-> symbol,
     original_entry_price  |-> entry_price,
     original_position_amt |-> Abs(position_amt),
     side                  |-> side,
     roll_count            |-> 0,
     roll_history          |-> <<>>]

\* a history entry numbered with the count before the roll
HistoryEntryOldNumber(new_count, roll_details) ==
    [roll_number      |-> new_count - 1,
     current_price    |-> roll_details.current_price,
     unrealized_pnl   |-> roll_details.unrealized_pnl,
     profit_pct       |-> roll_details.profit_pct,
     reinvest_amount  |-> roll_details.reinvest_amount,
     new_position_qty |-> roll_details.new_position_qty,
     leverage         |-> roll_details.leverage]

HistoryEntry(new_count, roll_details) ==
    [roll_number      |-> new_count,
     current_price    |-> roll_details.current_price,
     unrealized_pnl   |-> roll_details.unrealized_pnl,
     profit_pct       |-> roll_details.profit_pct,
     reinvest_amount  |-> roll_details.reinvest_amount,
     new_position_qty |-> roll_details.new_position_qty,
     leverage         |-> roll_details.leverage]

\* a limit check that lets one roll too many through
RollRefusedOffByOne(new_count) == new_count > MaxRollCount + 1

\* the count at which increment_roll_count refuses: new_count > 6
RollRefused(new_count) == new_count > MaxRollCount

\* what increment_roll_count does to the dict, what it returns, whether it saves
IncrementOutcome(data, symbol, roll_details) ==
    IF ~Has(data, symbol)
    THEN [data |-> data, ret |-> 0, saves |-> FALSE]
    ELSE LET new_count == data[symbol].roll_count + 1 IN
         IF RollRefused(new_count)
         THEN [data |-> data, ret |-> 6, saves |-> FALSE]
         ELSE [data  |-> Put(data, symbol,
                            [data[symbol] EXCEPT
                               !.roll_count = new_count,
                               !.roll_history =
                                   Append(@, HistoryEntry(new_count, roll_details))]),
               ret   |-> new_count,
               saves |-> TRUE]

\* a can_roll that still allows a roll at the limit
CanRollOffByOne(data, symbol) ==
    IF ~Has(data, symbol)
    THEN <<TRUE, <<"new">>, 0>>
    ELSE LET current_count == data[symbol].roll_count IN
         IF current_count > 6
         THEN <<FALSE, <<"max_reached", 6>>, current_count>>
         ELSE <<TRUE, <<"remaining", current_count, 6 - current_count>>, current_count>>

\* can_roll: (allowed, reason, current count)
CanRoll(data, symbol) ==
    IF ~Has(data, symbol)
    THEN <<TRUE, <<"new">>, 0>>
    ELSE LET current_count == data[symbol].roll_count IN
         IF current_count >= 6
         THEN <<FALSE, <<"max_reached", 6>>, current_count>>
         ELSE <<TRUE, <<"remaining", current_count, 6 - current_count>>, current_count>>

\* an initialize_position that keeps the count and the history of a record
\* the symbol already has
InitializeKeepingRolls(symbol, entry_price, position_amt, side, o) ==
    /\ rollData' = Put(rollData, symbol,
                    [NewRollRecord(symbol, entry_price, position_amt, side) EXCEPT
                        !.roll_count = GetRollCount(rollData, symbol),
                        !.roll_history = IF Has(rollData, symbol)
                                         THEN rollData[symbol].roll_history ELSE <<>>])
    /\ rollFile' = Written(rollFile, rollData', o)
    /\ writeFaults' = Faults(o)
    /\ call' = [op |-> "initialize_position", sym |-> symbol,
                arg |-> <<entry_price, position_amt, side>>, ret |-> None]
    /\ UNCHANGED <<tsVars, perfVars, riskVars, exVars, dashVars>>

\* initialize_position: the symbol's record replaced by a fresh one, then _save
InitializePosition(symbol, entry_price, position_amt, side, o) ==
    /\ rollData' = Put(rollData, symbol,
                    NewRollRecord(symbol, entry_price, position_amt, side))
    /\ rollFile' = Written(rollFile, rollData', o)
    /\ writeFaults' = Faults(o)
    /\ call' = [op |-> "initialize_position", sym |-> symbol,
                arg |-> <<entry_price, position_amt, side>>, ret |-> None]
    /\ UNCHANGED <<tsVars, perfVars, riskVars, exVars, dashVars>>

IncrementRollCount(symbol, roll_details, o) ==
    LET r == IncrementOutcome(rollData, symbol, roll_details) IN
    /\ rollData' = r.data
    /\ IF r.saves
       THEN /\ rollFile' = Written(rollFile, rollData', o)
            /\ writeFaults' = Faults(o)
       ELSE UNCHANGED <<rollFile, writeFaults>>
    /\ call' = [op |-> "increment_roll_count", sym |-> symbol,
                arg |-> <<roll_details>>, ret |-> r.ret,
                \* history: the symbol's count when the call was made
                was |-> GetRollCount(rollData, symbol)]
    /\ UNCHANGED <<tsVars, perfVars, riskVars, exVars, dashVars>>

CanRollCall(symbol) ==
    /\ call' = [op |-> "can_roll", sym |-> symbol, arg |-> <<>>,
                ret |-> CanRoll(rollData, symbol)]
    /\ UNCHANGED <<rollVars, tsVars, perfVars, writeFaults, riskVars, exVars, dashVars>>

\* a clear_symbol that empties the whole dict
ClearEverySymbol(symbol, o) ==
    /\ IF Has(rollData, symbol)
       THEN /\ rollData' = EmptyDict
            /\ rollFile' = Written(rollFile, rollData', o)
            /\ writeFaults' = Faults(o)
       ELSE UNCHANGED <<rollData, rollFile, writeFaults>>
    /\ call' = [op |-> "clear_symbol", sym |-> symbol, arg |-> <<>>, ret |-> None]
    /\ UNCHANGED <<tsVars, perfVars, riskVars, exVars, dashVars>>

\* clear_symbol: `if symbol in self.data: del self.data[symbol]; self._save()`
ClearSymbol(symbol, o) ==
    /\ IF Has(rollData, symbol)
       THEN /\ rollData' = Del(rollData, symbol)
            /\ rollFile' = Written(rollFile, rollData', o)
            /\ writeFaults' = Faults(o)
       ELSE UNCHANGED <<rollData, rollFile, writeFaults>>
    /\ call' = [op |-> "clear_symbol", sym |-> symbol, arg |-> <<>>, ret |-> None]
    /\ UNCHANGED <<tsVars, perfVars, riskVars, exVars, dashVars>>

\* an update_original_entry_price that starts the symbol's rolls over
UpdateResettingRolls(symbol, new_price, o) ==
    /\ IF Has(rollData, symbol)
       THEN /\ rollData' = Put(rollData, symbol,
                               [rollData[symbol] EXCEPT !.original_entry_price = new_price,
                                                        !.roll_count = 0,
                                                        !.roll_history = <<>>])
            /\ rollFile' = Written(rollFile, rollData', o)
            /\ writeFaults' = Faults(o)
       ELSE UNCHANGED <<rollData, rollFile, writeFaults>>
    /\ call' = [op |-> "update_original_entry_price", sym |-> symbol,
                arg |-> <<new_price>>, ret |-> None]
    /\ UNCHANGED <<tsVars, perfVars, riskVars, exVars, dashVars>>

\* update_original_entry_price: only a symbol that has a record is written
UpdateOriginalEntryPrice(symbol, new_price, o) ==
    /\ IF Has(rollData, symbol)
       THEN /\ rollData' = Put(rollData, symbol,
                               [rollData[symbol] EXCEPT !.original_entry_price = new_price])
            /\ rollFile' = Written(rollFile, rollData', o)
            /\ writeFaults' = Faults(o)
       ELSE UNCHANGED <<rollData, rollFile, writeFaults>>
    /\ call' = [op |-> "update_original_entry_price", sym |-> symbol,
                arg |-> <<new_price>>, ret |-> None]
    /\ UNCHANGED <<tsVars, perfVars, riskVars, exVars, dashVars>>

\* _load without its except clause: the raw content of a document that does
\* not parse
LoadUnparsed(file) ==
    IF ToString(file) = ToString(Absent) THEN EmptyDict ELSE file

\* _load: what a RollTracker constructed on the file starts from; a missing
\* file and a document that does not parse both give the empty dict
\* (the test is made on texts: a document and a marker cannot be compared)
Load(file) ==
    IF ToString(file) \in {ToString(Absent), ToString(Partial)} THEN EmptyDict ELSE file

(***************************************************************************)
(* Initial state: every object freshly constructed, no file on disk.       *)
(***************************************************************************)

\* round(n / d, 0) for d > 0: the nearest integer, either neighbour on a tie
RoundDiv(n, d) ==
    LET q == n \div d
        r == n - q * d
    IN IF 2 * r < d THEN {q}
       ELSE IF 2 * r > d THEN {q + 1}
       ELSE {q, q + 1}

\* the document _save_data dumps: self.data, of which the trades and the
\* snapshots are kept (the metrics it also holds are recomputed, never read back)
PerfDoc(ledger, snapshots) == [trades |-> ledger, portfolio_values |-> snapshots]

\* initial_capital of the PerformanceTracker constructor, by default
DefaultCapital == 10000

\* the state after construction with the given initial capital, on no file or
\* on the document a run that took the given snapshots has left
Constructed(capital, snapshots) ==
    /\ rollData = EmptyDict
    /\ rollFile = Absent
    /\ trailing_stops = EmptyDict
    /\ trades = <<>>
    /\ portfolio_values = snapshots
    /\ initial_capital = capital
    /\ perfFile = IF snapshots = <<>> THEN Absent ELSE PerfDoc(<<>>, snapshots)
    /\ writeFaults = 0
    /\ daily_pnl = 0
    /\ initial_balance = 0
    /\ peak_balance = 0
    /\ daily_trades = 0
    /\ pending_orders = {}
    /\ dashboard_data = [running |-> FALSE, trades |-> <<>>, portfolio_values |-> <<>>]
    /\ call = NoCall

Init == Constructed(DefaultCapital, <<>>)

(***************************************************************************)
(* TrailingStopManager                                                     *)
(***************************************************************************)
\* atr_multiplier, the constructor's default (and the value the engine passes)
AtrMultiplier == 2

\* prices and ATR values fed to the trailing stop, and the symbols it tracks
\* (an operation on one symbol reads and writes that symbol's entry only)
TSSymbols == {"BTCUSDT"}
TSPrices == {96, 100, 104, 110}
MaxAtr == 3
TSAtrs == 0..MaxAtr
TSPositionSizes == {1}

\* a stop distance laid on the wrong side of the price
StopDistanceInward(atr) == -(atr * AtrMultiplier)

\* stop_distance = atr * self.atr_multiplier
StopDistance(atr) == atr * AtrMultiplier

NewStopData(symbol, side, entry_price, atr, position_size) ==
    LET initial_stop == IF side = "LONG"
                        THEN entry_price - StopDistance(atr)
                        ELSE entry_price + StopDistance(atr)
    IN [symbol         |-> symbol,
        side           |-> side,
        entry_price    |-> entry_price,
        current_stop   |-> initial_stop,
        initial_stop   |-> initial_stop,
        atr            |-> atr,
        atr_multiplier |-> AtrMultiplier,
        position_size  |-> position_size,
        highest_price  |-> IF side = "LONG" THEN entry_price ELSE None,
        lowest_price   |-> IF side = "SHORT" THEN entry_price ELSE None,
        triggered      |-> FALSE]

\* a LONG stop that follows every new high, tighter or looser
LongRatchetLoose(old_stop, new_stop) == new_stop

\* the ratchet of a LONG stop: only a higher candidate replaces the stored stop
LongRatchet(old_stop, new_stop) == IF new_stop > old_stop THEN new_stop ELSE old_stop
\* the ratchet of a SHORT stop: only a lower candidate replaces the stored stop
ShortRatchet(old_stop, new_stop) == IF new_stop < old_stop THEN new_stop ELSE old_stop

\* stop_data after update_stop(symbol, current_price, atr)
UpdatedStopData(stop_data, current_price, atr) ==
    LET old_stop == stop_data.current_stop
        moved ==
          IF stop_data.side = "LONG"
          THEN IF current_price > stop_data.highest_price
               THEN [stop_data EXCEPT
                       !.highest_price = current_price,
                       !.current_stop =
                           LongRatchet(old_stop, current_price - StopDistance(atr))]
               ELSE stop_data
          ELSE IF current_price < stop_data.lowest_price
               THEN [stop_data EXCEPT
                       !.lowest_price = current_price,
                       !.current_stop =
                           ShortRatchet(old_stop, current_price + StopDistance(atr))]
               ELSE stop_data
    IN [moved EXCEPT !.atr = atr]

\* a trigger that misses a price exactly at the stop
StopHitStrict(stop_data, current_price) ==
    IF stop_data.side = "LONG"
    THEN current_price < stop_data.current_stop
    ELSE current_price > stop_data.current_stop

\* the comparison check_stop_triggered returns
StopHit(stop_data, current_price) ==
    IF stop_data.side = "LONG"
    THEN current_price <= stop_data.current_stop
    ELSE current_price >= stop_data.current_stop

InitializeStop(symbol, side, entry_price, atr, position_size) ==
    LET stop_data == NewStopData(symbol, side, entry_price, atr, position_size) IN
    /\ trailing_stops' = Put(trailing_stops, symbol, stop_data)
    /\ call' = [op |-> "initialize_stop", sym |-> symbol,
                arg |-> <<side, entry_price, atr>>, ret |-> stop_data]
    /\ UNCHANGED <<rollVars, perfVars, writeFaults, riskVars, exVars, dashVars>>

UpdateStop(symbol, current_price, atr) ==
    /\ IF ~Has(trailing_stops, symbol)
       THEN /\ UNCHANGED trailing_stops
            /\ call' = [op |-> "update_stop", sym |-> symbol,
                        arg |-> <<current_price, atr>>, ret |-> None]
       ELSE LET stop_data == UpdatedStopData(trailing_stops[symbol], current_price, atr) IN
            /\ trailing_stops' = Put(trailing_stops, symbol, stop_data)
            /\ call' = [op |-> "update_stop", sym |-> symbol,
                        arg |-> <<current_price, atr>>, ret |-> stop_data]
    /\ UNCHANGED <<rollVars, perfVars, writeFaults, riskVars, exVars, dashVars>>

CheckStopTriggered(symbol, current_price) ==
    /\ IF ~Has(trailing_stops, symbol)
       THEN /\ UNCHANGED trailing_stops
            /\ call' = [op |-> "check_stop_triggered", sym |-> symbol,
                        arg |-> <<current_price>>, ret |-> FALSE]
       ELSE LET triggered == StopHit(trailing_stops[symbol], current_price) IN
            /\ trailing_stops' =
                  IF triggered
                  THEN Put(trailing_stops, symbol,
                           [trailing_stops[symbol] EXCEPT !.triggered = TRUE])
                  ELSE trailing_stops
            /\ call' = [op |-> "check_stop_triggered", sym |-> symbol,
                        arg |-> <<current_price>>, ret |-> triggered]
    /\ UNCHANGED <<rollVars, perfVars, writeFaults, riskVars, exVars, dashVars>>

RemoveStop(symbol) ==
    /\ trailing_stops' = IF Has(trailing_stops, symbol)
                         THEN Del(trailing_stops, symbol) ELSE trailing_stops
    /\ call' = [op |-> "remove_stop", sym |-> symbol, arg |-> <<>>,
                ret |-> IF Has(trailing_stops, symbol) THEN trailing_stops[symbol] ELSE None]
    /\ UNCHANGED <<rollVars, perfVars, writeFaults, riskVars, exVars, dashVars>>

(***************************************************************************)
(* PerformanceTracker                                                      *)
(*                                                                         *)
(* Prices are whole dollars, quantities thousandths of a unit and pnl       *)
(* thousandths of a dollar, so that round(pnl, 2) has something to round.   *)
(***************************************************************************)
\* the ledger holds at most this many records in the model
MaxTrades == 3

\* the trade dictionaries handed to record_trade (symbol added by the caller)
PerfTradeInputs ==
    {[action |-> "OPEN_LONG", entry_price |-> 100, price |-> None,
      quantity |-> 5, leverage |-> 1, pnl |-> None],
     [action |-> "OPEN_SHORT", entry_price |-> 0, price |-> 100,
      quantity |-> 2000, leverage |-> 3, pnl |-> None],
     [action |-> "ROLL_ADD_LONG", entry_price |-> 101, price |-> 101,
      quantity |-> 5, leverage |-> 3, pnl |-> None]}
\* prices at which positions are closed
PerfClosePrices == {100, 101}

\* the result of a call that raised instead of returning
Raised == None - 1
OpeningActions == {"OPEN_LONG", "OPEN_SHORT"}

\* Python's `a or b` on an optional number
Or(a, b) == IF a # None /\ a # 0 THEN a ELSE b

TradeRecord(symbol, trade) ==
    [symbol      |-> symbol,
     action      |-> trade.action,
     quantity    |-> trade.quantity,
     price       |-> Or(trade.entry_price, trade.price),
     leverage    |-> trade.leverage,
     pnl         |-> trade.pnl,
     close_price |-> None]

\* a scan that does not look at pnl
IsOpenRecordAnyPnl(trade, symbol) ==
    /\ trade.symbol = symbol
    /\ trade.action \in OpeningActions

\* the record the reversed scan of record_trade_close selects
IsOpenRecord(trade, symbol) ==
    /\ trade.symbol = symbol
    /\ trade.action \in OpeningActions
    /\ trade.pnl = None

\* a scan that runs forwards and stops at the oldest open record
EntryIndexOldest(ledger, symbol) ==
    LET open == {i \in 1..Len(ledger) : IsOpenRecord(ledger[i], symbol)} IN
    IF open = {} THEN 0 ELSE CHOOSE i \in open : \A j \in open : j >= i

\* index of the entry trade the scan stops at, 0 when it finds none
EntryIndex(ledger, symbol) ==
    LET open == {i \in 1..Len(ledger) : IsOpenRecord(ledger[i], symbol)} IN
    IF open = {} THEN 0 ELSE CHOOSE i \in open : \A j \in open : j <= i

PriceDiff(entry_trade, close_price) ==
    IF entry_trade.action \in {"OPEN_LONG", "BUY"}
    THEN close_price - entry_trade.price
    ELSE entry_trade.price - close_price

\* a pnl that forgets the leverage
ClosePnlNoLeverage(entry_trade, close_price) ==
    PriceDiff(entry_trade, close_price) * entry_trade.quantity

\* pnl of closing entry_trade at close_price, in thousandths of a dollar
ClosePnl(entry_trade, close_price) ==
    PriceDiff(entry_trade, close_price) * entry_trade.quantity * entry_trade.leverage

\* round(x, 2) of an amount in thousandths: the nearest multiple of 10; on a
\* decimal tie the binary float lies on either side, so either neighbour
Round2(x) ==
    LET lo == (x \div 10) * 10
        r  == x - lo
    IN IF r = 0 THEN {x}
       ELSE IF r < 5 THEN {lo}
       ELSE IF r > 5 THEN {lo + 10}
       ELSE {lo, lo + 10}

RecordTrade(symbol, trade, o) ==
    /\ Len(trades) < MaxTrades
    /\ trades' = Append(trades, TradeRecord(symbol, trade))
    /\ perfFile' = Written(perfFile, PerfDoc(trades', portfolio_values), o)
    /\ writeFaults' = Faults(o)
    /\ call' = [op |-> "record_trade", sym |-> symbol, arg |-> <<trade>>, ret |-> None]
    /\ UNCHANGED <<portfolio_values, initial_capital, rollVars, tsVars, riskVars, exVars, dashVars>>

RecordTradeClose(symbol, close_price, o) ==
    LET i == EntryIndex(trades, symbol)
        \* history: how many open records the symbol had when the call was made
        open_before == Cardinality({j \in 1..Len(trades) : IsOpenRecord(trades[j], symbol)})
    IN
    IF i = 0
    THEN /\ call' = [op |-> "record_trade_close", sym |-> symbol,
                     arg |-> <<close_price>>, ret |-> 0, open_before |-> open_before]
         /\ UNCHANGED <<rollVars, tsVars, perfVars, writeFaults, riskVars, exVars, dashVars>>
    ELSE IF None \in {trades[i].price, trades[i].quantity, trades[i].leverage}
    THEN \* TypeError from the arithmetic on None, raised to the caller
         /\ call' = [op |-> "record_trade_close", sym |-> symbol,
                     arg |-> <<close_price>>, ret |-> Raised,
                     open_before |-> open_before]
         /\ UNCHANGED <<rollVars, tsVars, perfVars, writeFaults, riskVars, exVars, dashVars>>
    ELSE LET pnl == ClosePnl(trades[i], close_price) IN
         /\ \E stored \in Round2(pnl) :
               trades' = [trades EXCEPT ![i].pnl = stored,
                                        ![i].close_price = close_price]
         /\ perfFile' = Written(perfFile, PerfDoc(trades', portfolio_values), o)
         /\ writeFaults' = Faults(o)
         /\ call' = [op |-> "record_trade_close", sym |-> symbol,
                     arg |-> <<close_price>>, ret |-> pnl, open_before |-> open_before]
         /\ UNCHANGED <<portfolio_values, initial_capital, rollVars, tsVars, riskVars, exVars, dashVars>>

(***************************************************************************)
(* Portfolio snapshots (update_portfolio_value).  A snapshot's time is a   *)
(* logical clock, the number of the snapshot, in place of                  *)
(* datetime.now(); values are in dollars and return_pct in whole percent   *)
(* (the explored values make the quotient exact).                          *)
(***************************************************************************)
\* the number of points update_portfolio_value keeps
SnapshotCap == 10000

\* how many snapshots a series that starts empty is explored to, and how many
\* past the cap one that starts almost full
MaxSnapshots == 4

SnapshotValues == {9000, 11000}

\* series[:n], the first n points
KeepFirst(series, n) ==
    IF Len(series) <= n THEN series ELSE SubSeq(series, 1, n)

\* series[-n:], the last n points
KeepLast(series, n) ==
    IF Len(series) <= n THEN series ELSE SubSeq(series, Len(series) - n + 1, Len(series))

Now(series) == IF series = <<>> THEN 1 ELSE series[Len(series)].time + 1

Snapshot(series, current_value, capital) ==
    [time       |-> Now(series),
     value      |-> current_value,
     return_pct |-> ((current_value - capital) * 100) \div capital]

\* a series of n snapshots of an account that stayed at its initial capital
FlatSeries(n, capital) ==
    [i \in 1..n |-> [time |-> i, value |-> capital, return_pct |-> 0]]

\* the series explored: short ones, and ones around the cap
SnapshotExplored(series) ==
    \/ Len(series) < MaxSnapshots
    \/ /\ Len(series) >= SnapshotCap - 2
       /\ Now(series) <= SnapshotCap + MaxSnapshots

UpdatePortfolioValue(current_value, o) ==
    /\ SnapshotExplored(portfolio_values)
    /\ IF initial_capital = 0
       THEN \* the division of return_pct raises ZeroDivisionError before the append
            /\ call' = [op |-> "update_portfolio_value", sym |-> None,
                        arg |-> <<current_value>>, ret |-> Raised]
            /\ UNCHANGED <<rollVars, tsVars, perfVars, writeFaults, riskVars, exVars, dashVars>>
       ELSE /\ portfolio_values' =
                   KeepLast(Append(portfolio_values,
                                   Snapshot(portfolio_values, current_value,
                                            initial_capital)),
                            SnapshotCap)
            /\ perfFile' = Written(perfFile, PerfDoc(trades, portfolio_values'), o)
            /\ writeFaults' = Faults(o)
            /\ call' = [op |-> "update_portfolio_value", sym |-> None,
                        arg |-> <<current_value>>, ret |-> None]
            /\ UNCHANGED <<trades, initial_capital, rollVars, tsVars, riskVars, exVars, dashVars>>

(***************************************************************************)
(* calculate_metrics.  Of the record it returns the model keeps the fields *)
(* computed in its own body; the helper metrics (_calculate_sharpe_ratio,  *)
(* _calculate_max_drawdown, ...) each run inside a try/except of their own *)
(* that returns 0.0.  Percentages are in hundredths of a percent.          *)
(***************************************************************************)
MetricsBalances == {0, 10500}

\* the unRealizedProfit of the open positions
MetricsPositions == {<<>>, <<20>>}

RECURSIVE Sum(_)
Sum(seq) == IF seq = <<>> THEN 0 ELSE seq[1] + Sum(Tail(seq))

\* the division of cumulative_return raises ZeroDivisionError
CumulativeReturnRaises(capital) == capital = 0

CalculateMetrics(current_balance, positions, o) ==
    LET unrealized_pnl == Sum(positions)
        total_value    == current_balance + unrealized_pnl
        realized_pnl   == current_balance - initial_capital
    IN
    IF CumulativeReturnRaises(initial_capital)
    THEN /\ call' = [op |-> "calculate_metrics", sym |-> None,
                     arg |-> <<current_balance, positions>>, ret |-> <<>>,
                     raised |-> TRUE]
         /\ UNCHANGED <<rollVars, tsVars, perfVars, writeFaults, riskVars, exVars, dashVars>>
    ELSE /\ \E cumulative_return \in
                   RoundDiv((total_value - initial_capital) * 10000, initial_capital),
               current_position_return \in
                   IF current_balance > 0
                   THEN RoundDiv(unrealized_pnl * 10000, current_balance) ELSE {0},
               realized_return \in
                   IF initial_capital > 0
                   THEN RoundDiv(realized_pnl * 10000, initial_capital) ELSE {0} :
               call' = [op |-> "calculate_metrics", sym |-> None,
                        arg |-> <<current_balance, positions>>,
                        ret |-> <<[account_value               |-> total_value,
                                   wallet_balance              |-> current_balance,
                                   cumulative_return_pct       |-> cumulative_return,
                                   cumulative_return_usd       |->
                                       total_value - initial_capital,
                                   current_position_return_pct |->
                                       current_position_return,
                                   unrealized_pnl              |-> unrealized_pnl,
                                   realized_pnl                |-> realized_pnl,
                                   realized_return_pct         |-> realized_return,
                                   total_trades                |-> Len(trades),
                                   open_positions              |-> Len(positions)]>>,
                        raised |-> FALSE]
         \* self.data['metrics'] = metrics; self._save_data(): the whole document
         /\ perfFile' = Written(perfFile, PerfDoc(trades, portfolio_values), o)
         /\ writeFaults' = Faults(o)
         /\ UNCHANGED <<trades, portfolio_values, initial_capital, rollVars, tsVars,
                        riskVars, exVars, dashVars>>

(***************************************************************************)
(* RiskManager                                                             *)
(*                                                                         *)
(* Fractions are whole percents (risk_per_trade 2 is 0.02); the returned    *)
(* position size is in thousandths of a unit, as round(position_size, 3).   *)
(***************************************************************************)
\* config defaults: max_portfolio_risk 0.02, max_position_size 0.1
MaxPortfolioRiskPct == 2
MaxPositionSizePct == 10

RiskBalances == {-50, 0, 50, 1000}
RiskPrices == {0, 96, 98, 100}
RiskPcts == {None, 2, 5}

\* calculate_position_size without its price_risk == 0 guard
CalculatePositionSizeNoGuard(account_balance, entry_price, stop_loss_price, risk_per_trade) ==
    LET risk == IF risk_per_trade = None THEN MaxPortfolioRiskPct ELSE risk_per_trade
        price_risk == Abs(entry_price - stop_loss_price)
    IN IF price_risk = 0
       THEN {Raised}
       ELSE IF account_balance * risk * entry_price
                   > account_balance * MaxPositionSizePct * price_risk
            THEN IF entry_price = 0
                 THEN {Raised}
                 ELSE RoundDiv(10 * account_balance * MaxPositionSizePct, entry_price)
            ELSE RoundDiv(10 * account_balance * risk, price_risk)

\* the values calculate_position_size can return (Raised: ZeroDivisionError)
CalculatePositionSize(account_balance, entry_price, stop_loss_price, risk_per_trade) ==
    LET risk == IF risk_per_trade = None THEN MaxPortfolioRiskPct ELSE risk_per_trade
        \* risk_amount = account_balance * risk / 100
        price_risk == Abs(entry_price - stop_loss_price)
    IN IF price_risk = 0
       THEN {0}
       ELSE \* position_size = risk_amount / price_risk
            \* position_value > max_position_value, both sides times 100 * price_risk
            IF account_balance * risk * entry_price
                   > account_balance * MaxPositionSizePct * price_risk
            THEN IF entry_price = 0
                 THEN {Raised}
                 ELSE RoundDiv(10 * account_balance * MaxPositionSizePct, entry_price)
            ELSE RoundDiv(10 * account_balance * risk, price_risk)

CalculatePositionSizeCall(account_balance, entry_price, stop_loss_price, risk_per_trade) ==
    /\ \E q \in CalculatePositionSize(account_balance, entry_price,
                                      stop_loss_price, risk_per_trade) :
          call' = [op |-> "calculate_position_size", sym |-> None,
                   arg |-> <<account_balance, entry_price, stop_loss_price, risk_per_trade>>,
                   ret |-> q]
    /\ UNCHANGED <<rollVars, tsVars, perfVars, writeFaults, riskVars, exVars, dashVars>>

(***************************************************************************)
(* RiskManager: the session state (daily_pnl, initial_balance,             *)
(* peak_balance, daily_trades) and the calls that read or write it.        *)
(* Balances and pnl are whole dollars, ceilings whole percents; a          *)
(* comparison of a quotient with a ceiling is made on the cross-multiplied *)
(* integers.  A call that raises has raised |-> TRUE and ret |-> <<>>.     *)
(***************************************************************************)
\* config defaults: max_daily_loss 0.05, max_drawdown 0.15, max_open_positions
\* 10, max_leverage 10, margin_call_threshold 0.8
MaxDailyLossPct == 5
MaxDrawdownPct == 15
MaxOpenPositions == 10
MaxLeverage == 10
MarginCallThresholdPct == 80
\* the configured max_daily_trades
MaxDailyTrades == 2
\* |daily_pnl| stays within this in the model
MaxAbsPnl == 6

SessionBalances == {0, 50, 100}
PnlInputs == {-6, -3, 3}
OrderQuantities == {100, 200}
OrderPrices == {50, 100}
OpenPositionCounts == {0, 10}
Leverages == {1, 11}
\* positions as the exchange reports them (marginRatio None: key absent)
RiskPositions ==
    {[symbol |-> "BTCUSDT", entryPrice |-> 100, positionAmt |-> 2,
      unRealizedProfit |-> -24, liquidationPrice |-> 60, markPrice |-> 88,
      marginRatio |-> None],
     [symbol |-> "ETHUSDT", entryPrice |-> 100, positionAmt |-> -1,
      unRealizedProfit |-> -3, liquidationPrice |-> 0, markPrice |-> 103,
      marginRatio |-> 85],
     [symbol |-> "ETHUSDT", entryPrice |-> 0, positionAmt |-> 0,
      unRealizedProfit |-> 0, liquidationPrice |-> 0, markPrice |-> 100,
      marginRatio |-> None]}
RiskPositionLists ==
    {<<>>} \cup {<<p>> : p \in RiskPositions}
           \cup {<<p, q>> : p \in RiskPositions, q \in RiskPositions}
AssessPrices == {88, 100, 125}

NoReturn == <<>>

\* the peak following the balance down as well as up
FollowBalance(peak, account_balance) == account_balance

\* if account_balance > self.peak_balance: self.peak_balance = account_balance
RaisePeak(peak, account_balance) ==
    IF account_balance > peak THEN account_balance ELSE peak

\* check_trading_allowed: the session fields it writes, whether it raises
\* (ZeroDivisionError at abs(daily_pnl) / initial_balance) and what it returns
CheckTradingAllowed(pnl, initial, peak, ntrades, account_balance) ==
    LET initial1 == IF initial = 0 THEN account_balance ELSE initial
        peak0    == IF initial = 0 THEN account_balance ELSE peak
        peak1    == RaisePeak(peak0, account_balance)
        \* abs(daily_pnl) / initial_balance > max_daily_loss
        loss_over == IF initial1 > 0
                     THEN Abs(pnl) * 100 > MaxDailyLossPct * initial1
                     ELSE Abs(pnl) * 100 < MaxDailyLossPct * initial1
        \* (peak_balance - account_balance) / peak_balance > max_drawdown
        drawdown_over == (peak1 - account_balance) * 100 > MaxDrawdownPct * peak1
        raised == pnl < 0 /\ initial1 = 0
    IN [initial_balance |-> initial1,
        peak_balance    |-> peak1,
        raised          |-> raised,
        ret |-> IF raised THEN NoReturn
                ELSE IF pnl < 0 /\ loss_over THEN <<FALSE, "daily_loss">>
                ELSE IF peak1 > 0 /\ drawdown_over THEN <<FALSE, "max_drawdown">>
                ELSE IF ntrades >= MaxDailyTrades THEN <<FALSE, "daily_trades">>
                ELSE <<TRUE, "allowed">>]

\* validate_order after check_trading_allowed returned `checked`
ValidateOrder(checked, quantity, price, account_balance, open_positions, leverage) ==
    LET \* position_value / account_balance > max_position_size, quantity in thousandths
        size_over == IF account_balance > 0
                     THEN quantity * price > 10 * MaxPositionSizePct * account_balance
                     ELSE quantity * price < 10 * MaxPositionSizePct * account_balance
    IN IF checked.raised THEN [raised |-> TRUE, ret |-> NoReturn]
       ELSE IF ~checked.ret[1] THEN [raised |-> FALSE, ret |-> <<FALSE, checked.ret[2]>>]
       ELSE IF open_positions >= MaxOpenPositions
       THEN [raised |-> FALSE, ret |-> <<FALSE, "max_open_positions">>]
       ELSE IF leverage > MaxLeverage
       THEN [raised |-> FALSE, ret |-> <<FALSE, "leverage">>]
       ELSE IF account_balance = 0 THEN [raised |-> TRUE, ret |-> NoReturn]
       ELSE IF size_over THEN [raised |-> FALSE, ret |-> <<FALSE, "position_size">>]
       ELSE [raised |-> FALSE, ret |-> <<TRUE, "valid">>]

\* current_price - entry_price for a long, entry_price - current_price for a short
PnlDiff(position, current_price) ==
    IF position.positionAmt > 0
    THEN current_price - position.entryPrice
    ELSE position.entryPrice - current_price

\* unrealized_pnl_percent < threshold (the percent is 0 when entry_price == 0)
PnlPercentBelow(position, current_price, threshold) ==
    LET entry == position.entryPrice
        diff  == PnlDiff(position, current_price)
    IN IF entry = 0 THEN 0 < threshold
       ELSE IF entry > 0 THEN diff * 100 < threshold * entry
       ELSE diff * 100 > threshold * entry

\* unrealized_pnl_percent > threshold
PnlPercentAbove(position, current_price, threshold) ==
    LET entry == position.entryPrice
        diff  == PnlDiff(position, current_price)
    IN IF entry = 0 THEN 0 > threshold
       ELSE IF entry > 0 THEN diff * 100 > threshold * entry
       ELSE diff * 100 < threshold * entry

\* _determine_risk_level
DetermineRiskLevel(position, current_price) ==
    IF position.marginRatio # None /\ position.marginRatio > MarginCallThresholdPct
    THEN "CRITICAL"
    ELSE IF PnlPercentBelow(position, current_price, -10) THEN "CRITICAL"
    ELSE IF PnlPercentBelow(position, current_price, -5) THEN "HIGH"
    ELSE IF PnlPercentBelow(position, current_price, -2) THEN "MEDIUM"
    ELSE "LOW"

\* the PositionRisk assess_position_risk returns
AssessPositionRisk(position, current_price) ==
    [symbol            |-> position.symbol,
     entry_price       |-> position.entryPrice,
     current_price     |-> current_price,
     quantity          |-> Abs(position.positionAmt),
     side              |-> IF position.positionAmt > 0 THEN "LONG" ELSE "SHORT",
     unrealized_pnl    |-> position.unRealizedProfit,
     liquidation_price |-> IF position.liquidationPrice # 0
                           THEN position.liquidationPrice ELSE None,
     margin_ratio      |-> position.marginRatio,
     risk_level        |-> DetermineRiskLevel(position, current_price)]

\* the kind of advice suggest_position_adjustment returns ("none": None)
SuggestPositionAdjustment(position, current_price) ==
    LET risk == AssessPositionRisk(position, current_price) IN
    IF risk.risk_level = "CRITICAL" THEN "close_now"
    ELSE IF risk.risk_level = "HIGH" THEN "reduce"
    ELSE IF risk.risk_level = "MEDIUM" THEN "trailing_stop"
    ELSE IF PnlPercentAbove(position, current_price, 20) THEN "take_profit"
    ELSE "none"

RECURSIVE SumOver(_, _)
SumOver(positions, field) ==
    IF positions = <<>> THEN 0
    ELSE positions[1][field] + SumOver(Tail(positions), field)

ActivePositions(positions) == SelectSeq(positions, LAMBDA p : p.positionAmt # 0)

CriticalPositions(positions) ==
    SelectSeq(ActivePositions(positions),
              LAMBDA p : DetermineRiskLevel(p, p.markPrice) = "CRITICAL")

CheckTradingAllowedCall(account_balance) ==
    LET r == CheckTradingAllowed(daily_pnl, initial_balance, peak_balance,
                                 daily_trades, account_balance) IN
    /\ initial_balance' = r.initial_balance
    /\ peak_balance' = r.peak_balance
    /\ call' = [op |-> "check_trading_allowed", sym |-> None,
                arg |-> <<account_balance>>, ret |-> r.ret, raised |-> r.raised]
    /\ UNCHANGED <<daily_pnl, daily_trades, rollVars, tsVars, perfVars, writeFaults, exVars, dashVars>>

UpdateDailyPnl(pnl) ==
    /\ Abs(daily_pnl + pnl) <= MaxAbsPnl
    /\ daily_pnl' = daily_pnl + pnl
    /\ call' = [op |-> "update_daily_pnl", sym |-> None, arg |-> <<pnl>>,
                ret |-> NoReturn, raised |-> FALSE]
    /\ UNCHANGED <<initial_balance, peak_balance, daily_trades,
                   rollVars, tsVars, perfVars, writeFaults, exVars, dashVars>>

IncrementTradeCount ==
    /\ daily_trades < MaxDailyTrades
    /\ daily_trades' = daily_trades + 1
    /\ call' = [op |-> "increment_trade_count", sym |-> None, arg |-> <<>>,
                ret |-> NoReturn, raised |-> FALSE]
    /\ UNCHANGED <<daily_pnl, initial_balance, peak_balance,
                   rollVars, tsVars, perfVars, writeFaults, exVars, dashVars>>

ResetDailyMetrics ==
    /\ daily_pnl' = 0
    /\ daily_trades' = 0
    /\ call' = [op |-> "reset_daily_metrics", sym |-> None, arg |-> <<>>,
                ret |-> NoReturn, raised |-> FALSE]
    /\ UNCHANGED <<initial_balance, peak_balance,
                   rollVars, tsVars, perfVars, writeFaults, exVars, dashVars>>

ValidateOrderCall(symbol, quantity, price, account_balance, open_positions, leverage) ==
    LET checked == CheckTradingAllowed(daily_pnl, initial_balance, peak_balance,
                                       daily_trades, account_balance)
        r == ValidateOrder(checked, quantity, price, account_balance,
                           open_positions, leverage)
    IN
    /\ initial_balance' = checked.initial_balance
    /\ peak_balance' = checked.peak_balance
    /\ call' = [op |-> "validate_order", sym |-> symbol,
                arg |-> <<quantity, price, account_balance, open_positions, leverage>>,
                ret |-> r.ret, raised |-> r.raised]
    /\ UNCHANGED <<daily_pnl, daily_trades, rollVars, tsVars, perfVars, writeFaults, exVars, dashVars>>

AssessPositionRiskCall(position, current_price) ==
    /\ call' = [op |-> "assess_position_risk", sym |-> position.symbol,
                arg |-> <<position, current_price>>,
                ret |-> <<AssessPositionRisk(position, current_price)>>,
                raised |-> FALSE]
    /\ UNCHANGED <<riskVars, rollVars, tsVars, perfVars, writeFaults, exVars, dashVars>>

SuggestPositionAdjustmentCall(position, current_price) ==
    /\ call' = [op |-> "suggest_position_adjustment", sym |-> position.symbol,
                arg |-> <<position, current_price>>,
                ret |-> <<SuggestPositionAdjustment(position, current_price)>>,
                raised |-> FALSE]
    /\ UNCHANGED <<riskVars, rollVars, tsVars, perfVars, writeFaults, exVars, dashVars>>

\* get_portfolio_risk_summary: the dictionary it returns is built after its
\* call of check_trading_allowed(account_balance)
GetPortfolioRiskSummary(positions, account_balance) ==
    LET checked == CheckTradingAllowed(daily_pnl, initial_balance, peak_balance,
                                       daily_trades, account_balance)
        summary == [total_positions      |-> Len(ActivePositions(positions)),
                    total_unrealized_pnl |-> SumOver(positions, "unRealizedProfit"),
                    critical_positions   |-> [i \in DOMAIN CriticalPositions(positions) |->
                                                 CriticalPositions(positions)[i].symbol],
                    daily_pnl            |-> daily_pnl,
                    daily_trades         |-> daily_trades,
                    trading_allowed      |-> IF checked.raised THEN FALSE
                                             ELSE checked.ret[1],
                    account_balance      |-> account_balance,
                    peak_balance         |-> checked.peak_balance]
    IN
    /\ initial_balance' = checked.initial_balance
    /\ peak_balance' = checked.peak_balance
    /\ call' = [op |-> "get_portfolio_risk_summary", sym |-> None,
                arg |-> <<positions, account_balance>>,
                ret |-> IF checked.raised THEN NoReturn ELSE <<summary>>,
                raised |-> checked.raised]
    /\ UNCHANGED <<daily_pnl, daily_trades, rollVars, tsVars, perfVars, writeFaults, exVars, dashVars>>

(***************************************************************************)
(* The orchestrator: AlphaArenaBot._process_symbol and the roll strategy.  *)
(*                                                                         *)
(* The exchange is the environment: the position it reports, the balance,  *)
(* the price and the result of an order are inputs of the action.  The     *)
(* orders a call hands to the exchange are kept in the call's record.      *)
(* Amounts are fixed-point: position amounts and order quantities in       *)
(* thousandths of a unit, reinvested amounts in thousandths of a dollar,   *)
(* to the nearest thousandth.  The trackers' file writes succeed here;     *)
(* their failing is the subject of SpecRoll.                               *)
(***************************************************************************)
\* the ledger holds at most this many records under the orchestrator
MaxLedger == 7

\* the order types cancel_stop_orders cancels, of which the engine places two
ProtectiveTypes == {"STOP_MARKET", "TAKE_PROFIT_MARKET"}

\* the pending protective orders of a symbol
PendingOf(pending, symbol) == {o \in pending : o[1] = symbol}

\* what cancel_stop_orders can leave uncancelled: nothing, one order whose
\* cancel request raised, or everything when the query of the open orders raised
CancelFaults == {{}, {"STOP_MARKET"}, ProtectiveTypes}

\* cancel_stop_orders(symbol): every pending stop and take-profit order of the
\* symbol is cancelled but those whose request failed; it never raises
CancelStopOrders(pending, symbol, failed) ==
    {o \in pending : o[1] # symbol \/ o[2] \notin ProtectiveTypes \/ o[2] \in failed}

BotSymbols == {"BTCUSDT"}

\* positions as get_active_positions reports them
BotPositions ==
    {[positionAmt |-> 2000, entryPrice |-> 100, unRealizedProfit |-> 20,
      markPrice |-> 110, leverage |-> 5],
     [positionAmt |-> -2000, entryPrice |-> 100, unRealizedProfit |-> 0,
      markPrice |-> 100, leverage |-> 5]}

\* the AI's ROLL decisions; None stands for a key the decision does not have
RollDecisions ==
    {[leverage |-> 40, reinvest_pct |-> None, profit_threshold_pct |-> None],
     [leverage |-> 40, reinvest_pct |-> None, profit_threshold_pct |-> 0]}

BotBalances == {180, 1000}
BotPrices == {110}

\* what the exchange does in one call of execute_roll_strategy.
\* queries: the calls before the order (balance, price, set_leverage) return,
\* or one of them raises.  open_result: BinanceClient defines neither
\* open_long nor open_short, so with that client the order call raises
\* AttributeError; a client that has them returns the order (truthy) or a
\* falsy result.  stop_moved: move_stop_to_breakeven placed its stop order.
ExchangeResults ==
    {[queries |-> "raised", open_result |-> "raised",   stop_moved |-> FALSE],
     [queries |-> "ok",     open_result |-> "raised",   stop_moved |-> FALSE],
     [queries |-> "ok",     open_result |-> "rejected", stop_moved |-> FALSE],
     [queries |-> "ok",     open_result |-> "filled",   stop_moved |-> FALSE],
     [queries |-> "ok",     open_result |-> "filled",   stop_moved |-> TRUE]}

\* decision.get(key, default)
Get(decision, key, default) == IF decision[key] = None THEN default ELSE decision[key]

\* n / d to the nearest integer, d > 0
Nearest(n, d) == (2 * n + d) \div (2 * d)

\* an order counted as a success whatever the exchange answered
OrderSucceededAlways(open_result) == TRUE

\* `if open_result:`
OrderSucceeded(open_result) == open_result = "filled"

\* profit_ratio < threshold_pct, where
\* profit_ratio = unrealized_pnl / account_value * 100 if account_value > 0 else 0
BelowThreshold(unrealized_pnl, account_value, threshold_pct) ==
    IF account_value > 0
    THEN unrealized_pnl * 100 < threshold_pct * account_value
    ELSE 0 < threshold_pct

\* the sizing of the add-on order, lines 665-697
RollSizing(unrealized_pnl, account_value, decision, current_price) ==
    LET reinvest_pct == Max(50, Min(70, Get(decision, "reinvest_pct", 60)))
        \* net_unrealized_pnl * reinvest_pct / 100, the fee being 0.0005
        reinvest_amount == Nearest(unrealized_pnl * 9995 * reinvest_pct, 1000)
        new_leverage == Max(1, Min(30, Get(decision, "leverage", 10)))
        position_quantity ==
            Nearest(unrealized_pnl * 9995 * reinvest_pct * new_leverage,
                    1000 * current_price)
    IN [current_price    |-> current_price,
        unrealized_pnl   |-> unrealized_pnl,
        profit_pct       |-> IF account_value > 0
                             THEN Nearest(unrealized_pnl * 100, account_value)
                             ELSE 0,
        reinvest_amount  |-> reinvest_amount,
        \* min_quantity = 0.001
        new_position_qty |-> Max(1, position_quantity),
        leverage         |-> new_leverage]

\* the sizing step by itself: profits in dollars, account values, AI decisions
\* and market prices, a price of a whole bitcoin included
SizingProfits == 1..5
SizingAccounts == {180}
SizingPrices == {110, 60000}
SizingDecisions ==
    {[leverage |-> l, reinvest_pct |-> r, profit_threshold_pct |-> None] :
         l \in {None, 0, 1, 30, 40}, r \in {None, 40, 50, 70, 80}}

RollSizingCall(unrealized_pnl, account_value, decision, current_price) ==
    /\ call' = [op |-> "roll_sizing", sym |-> None,
                arg |-> <<unrealized_pnl, account_value, decision, current_price>>,
                ret |-> RollSizing(unrealized_pnl, account_value, decision,
                                   current_price)]
    /\ UNCHANGED <<rollVars, tsVars, perfVars, writeFaults, riskVars, exVars, dashVars>>

\* a call of execute_roll_strategy that changes nothing
RollReturns(symbol, position, decision, reason) ==
    /\ call' = [op |-> "execute_roll_strategy", sym |-> symbol,
                arg |-> <<>>,
                ret |-> [success |-> FALSE, reason |-> reason],
                orders |-> <<>>,
                \* history: the symbol's count when the call was made, whether
                \* the call initialised the record, whether its order succeeded
                was |-> GetRollCount(rollData, symbol),
                initialised |-> FALSE, succeeded |-> FALSE]
    /\ UNCHANGED <<rollVars, tsVars, perfVars, writeFaults, riskVars, exVars, dashVars>>

ExecuteRollStrategy(symbol, position, decision, account_balance, current_price, exchange) ==
    LET queries == exchange.queries
        open_result == exchange.open_result
        stop_moved == exchange.stop_moved
        can == CanRoll(rollData, symbol)
        current_count == can[3]
        unrealized_pnl == position.unRealizedProfit
        account_value == account_balance + unrealized_pnl
        sizing == RollSizing(unrealized_pnl, account_value, decision, current_price)
        side == IF position.positionAmt > 0 THEN "LONG" ELSE "SHORT"
        \* `if current_count == 0: initialize_position(...)`, before the order
        initialised ==
            IF current_count = 0
            THEN Put(rollData, symbol,
                     NewRollRecord(symbol, position.entryPrice, position.positionAmt, side))
            ELSE rollData
        order == [symbol |-> symbol, side |-> side, quantity |-> sizing.new_position_qty,
                  leverage |-> sizing.leverage, result |-> open_result]
        \* the order call returned and `if open_result:` took the success branch
        succeeded == open_result # "raised" /\ OrderSucceeded(open_result)
        incremented == IncrementOutcome(initialised, symbol, sizing)
        original_entry == GetOriginalEntryPrice(incremented.data, symbol)
        \* move_stop_to_breakeven places a stop order or returns without one
        stop_order == [symbol |-> symbol, side |-> "STOP",
                       quantity |-> Abs(position.positionAmt),
                       leverage |-> None, result |-> "filled"]
        \* it cancels the symbol's stop orders before it places its own
        stop_replaced == succeeded /\ stop_moved /\ original_entry \notin {None, 0}
    IN
    IF ~can[1]
    THEN RollReturns(symbol, position, decision, can[2])
    ELSE IF queries = "raised"
    THEN RollReturns(symbol, position, decision, <<"exception">>)
    ELSE IF BelowThreshold(unrealized_pnl, account_value,
                           Get(decision, "profit_threshold_pct", 6))
    THEN RollReturns(symbol, position, decision, <<"below_threshold">>)
    ELSE IF unrealized_pnl <= 0
    THEN RollReturns(symbol, position, decision, <<"no_profit">>)
    ELSE /\ succeeded => Len(trades) < MaxLedger
         /\ rollData' = IF succeeded THEN incremented.data ELSE initialised
         /\ rollFile' = IF current_count = 0 \/ (succeeded /\ incremented.saves)
                        THEN rollData' ELSE rollFile
         /\ trades' = IF succeeded
                      THEN Append(trades,
                                  TradeRecord(symbol,
                                      [action |-> IF side = "LONG" THEN "ROLL_ADD_LONG"
                                                  ELSE "ROLL_ADD_SHORT",
                                       entry_price |-> current_price,
                                       price |-> current_price,
                                       quantity |-> sizing.new_position_qty,
                                       leverage |-> sizing.leverage,
                                       pnl |-> None]))
                      ELSE trades
         /\ perfFile' = IF succeeded THEN PerfDoc(trades', portfolio_values) ELSE perfFile
         /\ call' = [op |-> "execute_roll_strategy", sym |-> symbol,
                     arg |-> <<>>,
                     ret |-> IF succeeded
                             THEN [success |-> TRUE, reason |-> <<"rolled", incremented.ret>>]
                             ELSE [success |-> FALSE,
                                   reason |-> IF open_result = "raised"
                                              THEN <<"exception">>
                                              ELSE <<"order_failed">>],
                     orders |-> IF open_result = "raised" THEN <<>>
                                ELSE IF succeeded /\ stop_moved
                                          /\ original_entry \notin {None, 0}
                                THEN <<order, stop_order>>
                                ELSE <<order>>,
                     was |-> GetRollCount(rollData, symbol),
                     initialised |-> current_count = 0,
                     succeeded |-> open_result = "filled"]
         /\ pending_orders' = IF stop_replaced
                              THEN CancelStopOrders(pending_orders, symbol, {})
                                   \cup {<<symbol, "STOP_LOSS">>}
                              ELSE pending_orders
         /\ UNCHANGED <<portfolio_values, initial_capital, tsVars, writeFaults, riskVars, dashVars>>

\* record_trade_close on a ledger: the ledger afterwards and the pnl returned,
\* or raised (TypeError from the arithmetic on None)
TradeCloseOutcomes(ledger, symbol, close_price) ==
    LET i == EntryIndex(ledger, symbol) IN
    IF i = 0
    THEN {[ledger |-> ledger, pnl |-> 0, raised |-> FALSE, saves |-> FALSE]}
    ELSE IF None \in {ledger[i].price, ledger[i].quantity, ledger[i].leverage}
    THEN {[ledger |-> ledger, pnl |-> 0, raised |-> TRUE, saves |-> FALSE]}
    ELSE LET pnl == ClosePnl(ledger[i], close_price) IN
         {[ledger |-> [ledger EXCEPT ![i].pnl = stored, ![i].close_price = close_price],
           pnl |-> pnl, raised |-> FALSE, saves |-> TRUE] : stored \in Round2(pnl)}

\* what close_position does: the exchange closes the position, or the call raises
CloseResults == {"closed", "raised"}
ClosePrices == {105}

\* _process_symbol, the branch of an existing position the AI decides to close
ProcessSymbolClose(symbol, position, close_price, close_result) ==
    LET close_order == [symbol |-> symbol, side |-> "CLOSE",
                        quantity |-> Abs(position.positionAmt),
                        leverage |-> None, result |-> close_result]
    IN
    /\ Len(trades) < MaxLedger
    /\ \E closed \in TradeCloseOutcomes(trades, symbol, close_price) :
          IF close_result = "raised" \/ closed.raised
          THEN /\ trades' = IF close_result = "raised" THEN trades ELSE closed.ledger
               /\ perfFile' = perfFile
               /\ call' = [op |-> "process_symbol_close", sym |-> symbol,
                           arg |-> <<close_price>>,
                           ret |-> [success |-> FALSE, reason |-> <<"exception">>],
                           orders |-> <<close_order>>]
          ELSE /\ trades' = Append(closed.ledger,
                                   TradeRecord(symbol,
                                       [action |-> "CLOSE",
                                        entry_price |-> position.entryPrice,
                                        price |-> close_price,
                                        quantity |-> Abs(position.positionAmt),
                                        leverage |-> position.leverage,
                                        pnl |-> closed.pnl]))
               /\ perfFile' = PerfDoc(trades', portfolio_values)
               /\ call' = [op |-> "process_symbol_close", sym |-> symbol,
                           arg |-> <<close_price>>,
                           ret |-> [success |-> TRUE, reason |-> <<"closed", closed.pnl>>],
                           orders |-> <<close_order>>]
    /\ UNCHANGED <<portfolio_values, initial_capital, rollVars, tsVars, writeFaults,
                 riskVars, exVars, dashVars>>

(***************************************************************************)
(* AITradingEngine.analyze_and_trade, which the orchestrator calls for a   *)
(* symbol without a position, from the AI's decision onwards, and the      *)
(* recording of its result by _process_symbol.  The cooldown is a matter   *)
(* of wall-clock time, an input here.  The engine's own trade_history      *)
(* list, read only to build the prompt, is not modelled.                   *)
(***************************************************************************)
\* MAX_POSITION_PCT, the bot's default
MaxPositionPct == 10
\* MAX_LEVERAGE of _execute_trade
EngineMaxLeverage == 20
\* the ceiling of the leverage adjusted to the minimum notional
AdjustedLeverageCap == 25
\* the minimum notional in dollars
MinNotional == 20

\* the AI's decisions; None stands for a key the decision does not have
OpenDecisions ==
    {[action |-> "BUY",        position_size |-> 10,   leverage |-> 5],
     [action |-> "OPEN_SHORT", position_size |-> None, leverage |-> 30],
     [action |-> "SELL",       position_size |-> 2,    leverage |-> 0],
     [action |-> "OPEN_LONG",  position_size |-> 20,   leverage |-> None],
     [action |-> "HOLD",       position_size |-> None, leverage |-> 1]}

\* available balances the engine sizes an order with, a small one included
EngineBalances == BotBalances \cup {80}

\* what the exchange does in one call of analyze_and_trade: the balance query
\* raises, the market order raises, or the orders are placed
EngineResults == {"balance_raised", "order_raised", "filled"}

\* _execute_trade with _open_long_position / _open_short_position: the results
\* it can return (quantity is rounded) with the orders handed to the exchange
ExecuteTrade(symbol, decision, max_position_pct, balance, current_price, exchange) ==
    LET action == decision.action
        position_size_pct == Min(Get(decision, "position_size", 1), max_position_pct)
        leverage == IF decision.leverage = None THEN None
                    ELSE IF decision.leverage > EngineMaxLeverage THEN EngineMaxLeverage
                    ELSE IF decision.leverage < 1 THEN 1
                    ELSE decision.leverage
        \* trade_amount = balance * position_size_pct / 100
        amount100 == balance * position_size_pct
        \* min_notional = max(20, min_qty * current_price), min_qty = 0.001
        min_notional1000 == Max(MinNotional * 1000, current_price)
        \* int(min_notional / amount) + 1
        required_leverage == (min_notional1000 * 100) \div (1000 * amount100) + 1
        adjusted == Min(Max(leverage, required_leverage), AdjustedLeverageCap)
        long == action \in {"BUY", "OPEN_LONG"}
        \* a result without an 'action' key
        failure == [success |-> FALSE, action |-> "absent", quantity |-> None,
                    leverage |-> None, entry_price |-> None, orders |-> <<>>]
        order(side, quantity, result) ==
            [symbol |-> symbol, side |-> side, quantity |-> quantity,
             leverage |-> adjusted, result |-> result]
    IN IF leverage = None THEN {failure}
       ELSE IF action = "HOLD"
       THEN {[failure EXCEPT !.success = TRUE, !.action = "HOLD"]}
       ELSE IF action \notin {"BUY", "OPEN_LONG", "SELL", "OPEN_SHORT"} THEN {failure}
       ELSE IF amount100 <= 0 THEN {failure}
       ELSE {IF quantity = 0 THEN failure
             ELSE IF exchange = "order_raised"
             THEN [failure EXCEPT !.orders =
                       <<order(IF long THEN "LONG" ELSE "SHORT", quantity, "raised")>>]
             ELSE [success     |-> TRUE,
                   action      |-> IF long THEN "OPEN_LONG" ELSE "OPEN_SHORT",
                   quantity    |-> quantity,
                   leverage    |-> adjusted,
                   entry_price |-> current_price,
                   orders      |-> <<order(IF long THEN "LONG" ELSE "SHORT",
                                           quantity, "filled"),
                                     order("STOP", quantity, "filled"),
                                     order("TAKE_PROFIT", quantity, "filled")>>]
               \* round(amount * leverage / current_price, 3)
             : quantity \in RoundDiv(10 * amount100 * adjusted, current_price)}

AnalyzeAndTrade(symbol, decision, balance, current_price, cooling, exchange) ==
    LET returns(ret, orders) ==
            call' = [op |-> "analyze_and_trade", sym |-> symbol,
                     arg |-> <<decision, balance, current_price>>,
                     ret |-> ret, orders |-> orders]
    IN
    IF cooling
    THEN /\ returns([success |-> TRUE, action |-> "COOLDOWN"], <<>>)
         /\ UNCHANGED <<rollVars, tsVars, perfVars, writeFaults, riskVars, exVars, dashVars>>
    ELSE IF decision.leverage # None /\ exchange = "balance_raised"
    THEN /\ returns([success |-> FALSE, action |-> "absent"], <<>>)
         /\ UNCHANGED <<rollVars, tsVars, perfVars, writeFaults, riskVars, exVars, dashVars>>
    ELSE \E trade_result \in ExecuteTrade(symbol, decision, MaxPositionPct, balance,
                                         current_price, exchange) :
         LET \* _record_trade: the decision, saved to the ledger whatever the result
             recorded ==
                 Append(trades,
                        TradeRecord(symbol,
                            [action      |-> decision.action,
                             entry_price |-> trade_result.entry_price,
                             price       |-> None,
                             quantity    |-> trade_result.quantity,
                             leverage    |-> Get(decision, "leverage", 1),
                             pnl         |-> None]))
             \* _process_symbol: the result of an opening trade, saved again
             opened == trade_result.action \in {"BUY", "SELL", "OPEN_LONG", "OPEN_SHORT"}
         IN
         /\ trades' = IF opened
                      THEN Append(recorded,
                                  TradeRecord(symbol,
                                      [action      |-> trade_result.action,
                                       entry_price |-> trade_result.entry_price,
                                       price       |-> None,
                                       quantity    |-> trade_result.quantity,
                                       leverage    |-> trade_result.leverage,
                                       pnl         |-> None]))
                      ELSE recorded
         /\ Len(trades') <= MaxTrades
         /\ perfFile' = PerfDoc(trades', portfolio_values)
         /\ returns([success |-> TRUE, action |-> trade_result.action], trade_result.orders)
         \* the STOP_MARKET and TAKE_PROFIT_MARKET orders placed after the market order
         /\ pending_orders' = IF opened
                              THEN pending_orders
                                   \cup {<<symbol, "STOP_MARKET">>,
                                         <<symbol, "TAKE_PROFIT_MARKET">>}
                              ELSE pending_orders
         /\ UNCHANGED <<portfolio_values, initial_capital, rollVars, tsVars, writeFaults,
                 riskVars, dashVars>>

(***************************************************************************)
(* Crash and restart.  A process that dies loses its memory; the trackers  *)
(* of the next process start from what _load / _load_data read from the    *)
(* files.  _save and _save_data open the file with mode 'w', which         *)
(* truncates it, and then dump the document: a process that dies inside    *)
(* them leaves the old document (before open), a truncated or partial one  *)
(* (after open, before the dump has finished) or the new one.              *)
(***************************************************************************)
CrashPoints == {"before_open", "after_open", "after_dump"}

CrashWritten(old, doc, point) ==
    CASE point = "before_open" -> old
      [] point = "after_open"  -> Partial
      [] point = "after_dump"  -> doc

\* _load_data: the trades a PerformanceTracker constructed on the file starts
\* from; a missing file and a document that does not parse give a new ledger
LoadData(file) ==
    IF ToString(file) \in {ToString(Absent), ToString(Partial)}
    THEN PerfDoc(<<>>, <<>>) ELSE file

\* the states a mutating RollTracker call can bring the dict to before it saves
RollMutations(data) ==
    {Put(data, s, NewRollRecord(s, p, pos.amt, pos.side)) :
         s \in BotSymbols, p \in RollPrices, pos \in RollPositions}
    \cup {IncrementOutcome(data, s, det).data : s \in BotSymbols, det \in RollDetails}
    \cup {Del(data, s) : s \in BotSymbols}

\* the process dies between two calls and is started again
RollTrackerRestart ==
    /\ rollData' = Load(rollFile)
    /\ call' = [op |-> "roll_tracker_restart", sym |-> None, arg |-> <<>>,
                ret |-> rollData',
                \* history: the memory before and after the interrupted mutation
                before |-> rollData, after |-> rollData]
    /\ UNCHANGED <<rollFile, tsVars, perfVars, writeFaults, riskVars, exVars, dashVars>>

\* the process dies inside the _save of a mutating call and is started again
RollTrackerCrashInSave(point) ==
    /\ \E after \in RollMutations(rollData) :
          /\ after # rollData
          /\ rollFile' = CrashWritten(rollFile, after, point)
          /\ rollData' = Load(rollFile')
          /\ call' = [op |-> "roll_tracker_restart", sym |-> None, arg |-> <<point>>,
                      ret |-> rollData', before |-> rollData, after |-> after]
    /\ UNCHANGED <<tsVars, perfVars, writeFaults, riskVars, exVars, dashVars>>

PerformanceTrackerRestart ==
    /\ trades' = LoadData(perfFile).trades
    /\ portfolio_values' = LoadData(perfFile).portfolio_values
    /\ call' = [op |-> "performance_tracker_restart", sym |-> None, arg |-> <<>>,
                ret |-> trades', before |-> trades, after |-> trades,
                snapshots_before |-> portfolio_values]
    /\ UNCHANGED <<initial_capital, perfFile, rollVars, tsVars, writeFaults, riskVars, exVars, dashVars>>

\* the process dies inside the _save_data of record_trade and is started again
PerformanceTrackerCrashInSave(symbol, trade, point) ==
    LET after == Append(trades, TradeRecord(symbol, trade)) IN
    /\ Len(trades) < MaxTrades
    /\ perfFile' = CrashWritten(perfFile, PerfDoc(after, portfolio_values), point)
    /\ trades' = LoadData(perfFile').trades
    /\ portfolio_values' = LoadData(perfFile').portfolio_values
    /\ call' = [op |-> "performance_tracker_restart", sym |-> None, arg |-> <<point>>,
                ret |-> trades', before |-> trades, after |-> after,
                snapshots_before |-> portfolio_values]
    /\ UNCHANGED <<initial_capital, rollVars, tsVars, writeFaults, riskVars, exVars, dashVars>>

NextRoll ==
    \/ \E s \in Symbols, p \in RollPrices, pos \in RollPositions, o \in WriteOutcomes :
          InitializePosition(s, p, pos.amt, pos.side, o)
    \/ \E s \in Symbols, det \in RollDetails, o \in WriteOutcomes :
          IncrementRollCount(s, det, o)
    \/ \E s \in Symbols : CanRollCall(s)
    \/ \E s \in Symbols, o \in WriteOutcomes : ClearSymbol(s, o)
    \/ \E s \in Symbols, p \in RollPrices, o \in WriteOutcomes :
          UpdateOriginalEntryPrice(s, p, o)

SpecRoll == Init /\ [][NextRoll]_vars

NextTS ==
    \/ \E s \in TSSymbols, d \in Sides, p \in TSPrices, a \in TSAtrs,
          n \in TSPositionSizes :
          InitializeStop(s, d, p, a, n)
    \/ \E s \in TSSymbols, p \in TSPrices : CheckStopTriggered(s, p)
    \/ \E s \in TSSymbols, p \in TSPrices, a \in TSAtrs : UpdateStop(s, p, a)
    \/ \E s \in TSSymbols : RemoveStop(s)

SpecTS == Init /\ [][NextTS]_vars

\* the ledger in memory, every write succeeding (the ledger never depends on a
\* write's outcome)
NextPerf ==
    \/ \E s \in Symbols, t \in PerfTradeInputs : RecordTrade(s, t, "ok")
    \/ \E s \in Symbols, c \in PerfClosePrices : RecordTradeClose(s, c, "ok")

SpecPerf == Init /\ [][NextPerf]_vars

NextRisk ==
    \/ \E b \in RiskBalances, e \in RiskPrices, sl \in RiskPrices, r \in RiskPcts :
          CalculatePositionSizeCall(b, e, sl, r)
    \/ \E b \in SessionBalances : CheckTradingAllowedCall(b)
    \/ \E pnl \in PnlInputs : UpdateDailyPnl(pnl)
    \/ IncrementTradeCount
    \/ ResetDailyMetrics
    \/ \E s \in Symbols, q \in OrderQuantities, p \in OrderPrices,
          b \in SessionBalances, n \in OpenPositionCounts, l \in Leverages :
          ValidateOrderCall(s, q, p, b, n, l)
    \/ \E pos \in RiskPositions, p \in AssessPrices : AssessPositionRiskCall(pos, p)
    \/ \E pos \in RiskPositions, p \in AssessPrices :
          SuggestPositionAdjustmentCall(pos, p)
    \/ \E ps \in RiskPositionLists, b \in SessionBalances :
          GetPortfolioRiskSummary(ps, b)

SpecRisk == Init /\ [][NextRisk]_vars

\* _process_symbol on a symbol that has a position: the AI decides to roll or to close
NextBot ==
    \/ \E s \in BotSymbols, pos \in BotPositions, d \in RollDecisions,
          b \in BotBalances, p \in BotPrices, x \in ExchangeResults :
          ExecuteRollStrategy(s, pos, d, b, p, x)
    \/ \E s \in BotSymbols, pos \in BotPositions, p \in ClosePrices, r \in CloseResults :
          ProcessSymbolClose(s, pos, p, r)

SpecBot == Init /\ [][NextBot]_vars

\* _process_symbol on a symbol that has no position
NextEngine ==
    \E s \in BotSymbols, d \in OpenDecisions, b \in EngineBalances, p \in BotPrices,
       c \in BOOLEAN, x \in EngineResults :
       AnalyzeAndTrade(s, d, b, p, c, x)

SpecEngine == Init /\ [][NextEngine]_vars

\* the two trackers of one symbol, every write of a call that returns
\* succeeding, and the process dying between calls or inside a save
NextCrash ==
    \/ \E s \in BotSymbols, p \in RollPrices, pos \in RollPositions :
          InitializePosition(s, p, pos.amt, pos.side, "ok")
    \/ \E s \in BotSymbols, det \in RollDetails : IncrementRollCount(s, det, "ok")
    \/ \E s \in BotSymbols : ClearSymbol(s, "ok")
    \/ \E s \in BotSymbols, t \in PerfTradeInputs : RecordTrade(s, t, "ok")
    \/ RollTrackerRestart
    \/ \E point \in CrashPoints : RollTrackerCrashInSave(point)
    \/ PerformanceTrackerRestart
    \/ \E s \in BotSymbols, t \in PerfTradeInputs, point \in CrashPoints :
          PerformanceTrackerCrashInSave(s, t, point)

SpecCrash == Init /\ [][NextCrash]_vars

(***************************************************************************)
(* Protective orders at the exchange: the close branch of _execute_trade   *)
(* and AdvancedPositionManager.move_stop_to_breakeven.                     *)
(***************************************************************************)
\* close_position: the market order is placed, there is no position, or the
\* request raises
EngineCloseResults == {"closed", "no_position", "raised"}

\* _execute_trade with a CLOSE action and close_percentage 100
ExecuteTradeClose(symbol, close_result, failed) ==
    /\ pending_orders' = IF close_result = "closed"
                         THEN CancelStopOrders(pending_orders, symbol, failed)
                         ELSE pending_orders
    /\ call' = [op |-> "execute_trade_close", sym |-> symbol, arg |-> <<>>,
                ret |-> [success |-> close_result = "closed", action |-> "CLOSE"]]
    /\ UNCHANGED <<rollVars, tsVars, perfVars, writeFaults, riskVars, dashVars>>

\* entry prices and profit triggers move_stop_to_breakeven is called with
BreakevenEntries == {0, 100}
BreakevenTriggers == {0, 20}

\* new_stop_price = entry_price * (1 +/- breakeven_offset_pct / 100), in
\* thousandths of a dollar, the offset in tenths of a percent
NewStopPrice(position, entry_price, breakeven_offset) ==
    IF position.positionAmt > 0
    THEN entry_price * (1000 + breakeven_offset)
    ELSE entry_price * (1000 - breakeven_offset)

\* the checks move_stop_to_breakeven makes before it touches an order: the
\* reason it returns with, or "passed"
BreakevenChecks(has_position, position, entry_price, profit_trigger_pct) ==
    IF ~has_position THEN "no_position"
    ELSE IF entry_price = 0 THEN "exception"
    ELSE LET price_diff == IF position.positionAmt > 0
                           THEN position.markPrice - entry_price
                           ELSE entry_price - position.markPrice
         IN IF price_diff * 100 < profit_trigger_pct * entry_price
            THEN "below_trigger" ELSE "passed"

\* move_stop_to_breakeven: past its checks it cancels the symbol's stop orders
\* and calls create_stop_loss_order with the keyword reduce_only, which that
\* method does not take: the call raises TypeError, no order is placed and the
\* except clause returns the failure.  requested is the order the call was
\* given.
MoveStopToBreakeven(symbol, has_position, position, entry_price, profit_trigger_pct, breakeven_offset, failed) ==
    LET checked == BreakevenChecks(has_position, position, entry_price,
                                   profit_trigger_pct)
    IN
    /\ pending_orders' = IF checked = "passed"
                         THEN CancelStopOrders(pending_orders, symbol, failed)
                         ELSE pending_orders
    /\ call' = [op |-> "move_stop_to_breakeven", sym |-> symbol,
                arg |-> <<position.positionAmt, position.markPrice, entry_price,
                          profit_trigger_pct, breakeven_offset>>,
                ret |-> [success |-> FALSE,
                         reason  |-> IF checked = "passed" THEN "exception"
                                     ELSE checked],
                requested |->
                    IF checked = "passed"
                    THEN <<[side |-> IF position.positionAmt > 0 THEN "SELL" ELSE "BUY",
                            quantity   |-> Abs(position.positionAmt),
                            stop_price |-> NewStopPrice(position, entry_price,
                                                        breakeven_offset)]>>
                    ELSE <<>>]
    /\ UNCHANGED <<rollVars, tsVars, perfVars, writeFaults, riskVars, dashVars>>

\* positions opened with their protective orders, closed by the bot or by the
\* engine, and their stop moved to breakeven
NextOrders ==
    \/ \E s \in BotSymbols, d \in OpenDecisions, b \in BotBalances, p \in BotPrices,
          x \in EngineResults :
          AnalyzeAndTrade(s, d, b, p, FALSE, x)
    \/ \E s \in BotSymbols, pos \in BotPositions, c \in ClosePrices, r \in CloseResults :
          ProcessSymbolClose(s, pos, c, r)
    \/ \E s \in BotSymbols, r \in EngineCloseResults, f \in CancelFaults :
          ExecuteTradeClose(s, r, f)
    \/ \E s \in BotSymbols, h \in BOOLEAN, pos \in BotPositions, e \in BreakevenEntries,
          t \in BreakevenTriggers, off \in {0, 2}, f \in CancelFaults :
          MoveStopToBreakeven(s, h, pos, e, t, off, f)

SpecOrders == Init /\ [][NextOrders]_vars

(***************************************************************************)
(* The web dashboard, a process of its own: init_clients constructs its    *)
(* PerformanceTracker on performance_data.json once, and every pass of     *)
(* background_push_thread (and every request of the performance route)     *)
(* calls calculate_metrics on it, which flushes the document it holds.     *)
(***************************************************************************)
\* init_clients, the first time: the tracker loads the document
DashboardInitClients ==
    /\ ~dashboard_data.running
    /\ dashboard_data' = [running          |-> TRUE,
                          trades           |-> LoadData(perfFile).trades,
                          portfolio_values |-> LoadData(perfFile).portfolio_values]
    /\ call' = [op |-> "dashboard_init_clients", sym |-> None, arg |-> <<>>,
                ret |-> None]
    /\ UNCHANGED <<rollVars, tsVars, perfVars, writeFaults, riskVars, exVars>>

\* one pass of background_push_thread: calculate_metrics on the dashboard's
\* tracker (constructed with the exchange balance, not 0, as initial capital),
\* whose _save_data dumps the dashboard's document
DashboardBackgroundPush ==
    /\ dashboard_data.running
    /\ perfFile' = PerfDoc(dashboard_data.trades, dashboard_data.portfolio_values)
    /\ call' = [op |-> "dashboard_background_push", sym |-> None, arg |-> <<>>,
                ret |-> None]
    /\ UNCHANGED <<trades, portfolio_values, initial_capital, rollVars, tsVars,
                   writeFaults, riskVars, exVars, dashVars>>

\* the bot recording trades while the dashboard runs, every write succeeding
NextDash ==
    \/ \E s \in BotSymbols, t \in PerfTradeInputs : RecordTrade(s, t, "ok")
    \/ \E s \in BotSymbols, c \in PerfClosePrices : RecordTradeClose(s, c, "ok")
    \/ DashboardInitClients
    \/ DashboardBackgroundPush

SpecDash == Init /\ [][NextDash]_vars

\* one cycle of _process_symbol after another: the AI opens a position or
\* closes the one the symbol has
NextCycle ==
    \/ \E s \in BotSymbols, d \in OpenDecisions, b \in BotBalances, p \in BotPrices,
          x \in EngineResults :
          AnalyzeAndTrade(s, d, b, p, FALSE, x)
    \/ \E s \in BotSymbols, pos \in BotPositions, c \in ClosePrices, r \in CloseResults :
          ProcessSymbolClose(s, pos, c, r)

SpecCycle == Init /\ [][NextCycle]_vars

NextSizing ==
    \E u \in SizingProfits, a \in SizingAccounts, d \in SizingDecisions,
       p \in SizingPrices :
       RollSizingCall(u, a, d, p)

SpecSizing == Init /\ [][NextSizing]_vars

\* the two trackers with their calls, snapshots included, and the process dying
\* inside a save after the file was truncated, which leaves a document that
\* does not parse
NextCorrupt ==
    \/ \E s \in BotSymbols, p \in RollPrices, pos \in RollPositions :
          InitializePosition(s, p, pos.amt, pos.side, "ok")
    \/ \E s \in BotSymbols : CanRollCall(s)
    \/ \E s \in BotSymbols, t \in PerfTradeInputs : RecordTrade(s, t, "ok")
    \/ \E v \in SnapshotValues : UpdatePortfolioValue(v, "ok")
    \/ RollTrackerRestart
    \/ RollTrackerCrashInSave("after_open")
    \/ PerformanceTrackerRestart
    \/ \E s \in BotSymbols, t \in PerfTradeInputs :
          PerformanceTrackerCrashInSave(s, t, "after_open")

SpecCorrupt == Init /\ [][NextCorrupt]_vars

\* a PerformanceTracker whose series is empty or two points short of the cap,
\* constructed with the default initial capital or with 0
InitSnap ==
    \E capital \in {0, DefaultCapital}, n \in {0, SnapshotCap - 2} :
       Constructed(capital, FlatSeries(n, capital))

NextSnap ==
    \/ \E v \in SnapshotValues : UpdatePortfolioValue(v, "ok")
    \/ \E b \in MetricsBalances, ps \in MetricsPositions : CalculateMetrics(b, ps, "ok")

SpecSnap == InitSnap /\ [][NextSnap]_vars

(***************************************************************************)
(* AdvancedPositionManager's computations on a position: the take-profit   *)
(* tiers, the leverage recommended for a volatility and the roll           *)
(* eligibility.  Quantities are in ten-thousandths of a coin, position     *)
(* amounts in thousandths, prices and profits in dollars.                  *)
(***************************************************************************)
\* qty = round(remaining_qty * (close_pct / 100), 3), in ten-thousandths
TierQuantity(remaining_qty, close_pct) ==
    {10 * q : q \in RoundDiv(remaining_qty * close_pct, 1000)}

\* set_multiple_take_profits: the first tier is priced and sized and
\* create_take_profit_order is called with the keyword reduce_only, which that
\* method does not take: the call raises TypeError, nothing is sent, and the
\* except clause returns the empty list.  requested is what the call was given
\* (stop_price in hundredths of a dollar).
SetMultipleTakeProfits(symbol, side, entry_price, total_quantity, tp_levels) ==
    /\ \E qty \in (IF tp_levels = <<>> THEN {0}
                   ELSE TierQuantity(total_quantity, tp_levels[1].close_pct)) :
          call' = [op |-> "set_multiple_take_profits", sym |-> symbol,
                   arg |-> <<side, entry_price, total_quantity, tp_levels>>,
                   ret |-> <<>>,
                   requested |->
                       IF tp_levels = <<>> THEN <<>>
                       ELSE <<[side       |-> IF side = "BUY" THEN "SELL" ELSE "BUY",
                               quantity   |-> qty,
                               stop_price |-> IF side = "BUY"
                                              THEN entry_price * (100 + tp_levels[1].profit_pct)
                                              ELSE entry_price * (100 - tp_levels[1].profit_pct)]>>]
    /\ UNCHANGED <<rollVars, tsVars, perfVars, writeFaults, riskVars, exVars, dashVars>>

\* adjust_leverage_by_volatility: volatility_pct = (atr / current_price) * 100,
\* compared with 1.0 and 3.0 by `<`; set_result is what set_leverage did
AdjustLeverageByVolatility(symbol, atr, current_price, base_leverage, min_leverage, max_leverage, set_result) ==
    LET recommended_leverage ==
            IF atr * 100 < current_price THEN Min(max_leverage, base_leverage + 2)
            ELSE IF atr * 100 < 3 * current_price THEN base_leverage
            ELSE Max(min_leverage, base_leverage - 2)
        success == atr # 0 /\ current_price # 0 /\ set_result = "ok"
    IN
    /\ call' = [op |-> "adjust_leverage_by_volatility", sym |-> symbol,
                arg |-> <<atr, current_price, base_leverage, min_leverage, max_leverage>>,
                ret |-> [success  |-> success,
                         leverage |-> IF success THEN recommended_leverage ELSE None]]
    /\ UNCHANGED <<rollVars, tsVars, perfVars, writeFaults, riskVars, exVars, dashVars>>

\* can_roll_position: (eligible, reason, usable_pnl), usable_pnl in cents;
\* available_balance is Raised when the balance request fails
CanRollPosition(symbol, has_position, position, available_balance, profit_threshold_pct) ==
    LET unrealized_pnl == position.unRealizedProfit
        \* position_value = abs(position_amt) * entry_price, in thousandths
        position_value == Abs(position.positionAmt) * position.entryPrice
        reinvest_ratio == IF available_balance < 100 THEN 65
                          ELSE IF available_balance < 500 THEN 60
                          ELSE 50
        usable_pnl == unrealized_pnl * reinvest_ratio
        reason ==
            IF ~has_position THEN "no_position"
            ELSE IF position.entryPrice = 0 THEN "zero_entry"
            ELSE IF position_value = 0 THEN "exception"
            ELSE IF unrealized_pnl * 100 * 1000 < profit_threshold_pct * position_value
                 THEN "below_threshold"
            ELSE IF available_balance = Raised \/ position.leverage = 0 THEN "exception"
            ELSE IF position_value * 10 > available_balance * 8 * position.leverage * 1000
                 THEN "margin_near_limit"
            ELSE IF usable_pnl < 5 * 100 THEN "too_small"
            ELSE "eligible"
    IN
    /\ call' = [op |-> "can_roll_position", sym |-> symbol,
                arg |-> <<has_position, position.positionAmt, position.entryPrice,
                          position.unRealizedProfit, position.leverage,
                          available_balance, profit_threshold_pct>>,
                ret |-> [eligible   |-> reason = "eligible",
                         reason     |-> reason,
                         usable_pnl |-> IF reason = "eligible" THEN usable_pnl ELSE 0]]
    /\ UNCHANGED <<rollVars, tsVars, perfVars, writeFaults, riskVars, exVars, dashVars>>

\* the manager called on long and short positions of one coin or a fraction
\* of one, at volatilities on both sides of 1% and 3%, and on accounts of
\* each balance tier
NextManager ==
    \/ \E s \in BotSymbols, side \in {"BUY", "SELL"}, q \in {16, 10000},
          tp \in {<<>>,
                  <<[profit_pct |-> 5, close_pct |-> 100]>>,
                  <<[profit_pct |-> 5, close_pct |-> 50],
                    [profit_pct |-> 10, close_pct |-> 100]>>} :
          SetMultipleTakeProfits(s, side, 100, q, tp)
    \/ \E s \in BotSymbols, atr \in 0..4, p \in {0, 100, 200}, base \in {1, 5, 9},
          r \in {"ok", "raised"} :
          AdjustLeverageByVolatility(s, atr, p, base, 2, 10, r)
    \/ \E s \in BotSymbols, h \in BOOLEAN, pnl \in {5, 10, 20}, lev \in {1, 5},
          b \in {50, 200, 500, Raised}, t \in {6, 10} :
          CanRollPosition(s, h, [positionAmt |-> 1000, entryPrice |-> 100,
                                 unRealizedProfit |-> pnl, markPrice |-> 100 + pnl,
                                 leverage |-> lev], b, t)

SpecManager == Init /\ [][NextManager]_vars

(***************************************************************************)
(* Properties                                                              *)
(***************************************************************************)
\* the state as text: calls return values of different types (a record, a
\* boolean, a number), which TLC cannot compare with one another; their texts
\* it can, and two states have the same text exactly when they are equal
varsText == ToString(vars)


\* C1: for every symbol with a record, roll_count is within [0,6] and the
\* length of roll_history equals roll_count, in every reachable state.
C1_RollCountBounded ==
    \A s \in DOMAIN rollData :
        /\ rollData[s].roll_count \in 0..6
        /\ Len(rollData[s].roll_history) = rollData[s].roll_count

\* a symbol at the limit after an increment_roll_count that met the limit
C1_Witness ==
    /\ call.op = "increment_roll_count"
    /\ call.was = 6
    /\ Has(rollData, call.sym)
    /\ rollData[call.sym].roll_count = 6
    /\ Len(rollData[call.sym].roll_history) = 6

\* C2: an update_stop call on a symbol with a record never lowers the
\* current_stop of a LONG record and never raises that of a SHORT record.
C2_Step ==
    (call'.op = "update_stop" /\ Has(trailing_stops, call'.sym)) =>
        LET old == trailing_stops[call'.sym]
            new == trailing_stops'[call'.sym]
        IN /\ Has(trailing_stops', call'.sym)
           /\ new.side = old.side
           /\ old.side = "LONG" => new.current_stop >= old.current_stop
           /\ old.side = "SHORT" => new.current_stop <= old.current_stop

C2_StopMonotonic == [][C2_Step]_varsText

\* a LONG stop already raised, and an update at the tracked high whose
\* candidate stop (price - atr * multiplier) lies below the stored stop
C2_Witness ==
    /\ call.op = "update_stop"
    /\ Has(trailing_stops, call.sym)
    /\ LET r == trailing_stops[call.sym] IN
          /\ r.side = "LONG"
          /\ r.current_stop > r.initial_stop
          /\ r.highest_price = call.arg[1]
          /\ call.arg[1] - call.arg[2] * r.atr_multiplier < r.current_stop

\* C3: increment_roll_count on a symbol at roll_count 6 changes nothing and
\* returns 6; on a symbol below 6 it raises roll_count by exactly 1 and appends
\* exactly one history entry, whose roll_number is the new count.
C3_Step ==
    (call'.op = "increment_roll_count" /\ Has(rollData, call'.sym)) =>
        LET s   == call'.sym
            old == rollData[s]
        IN IF old.roll_count = 6
           THEN /\ rollData' = rollData
                /\ call'.ret = 6
           ELSE /\ DOMAIN rollData' = DOMAIN rollData
                /\ rollData'[s].roll_count = old.roll_count + 1
                /\ Len(rollData'[s].roll_history) = Len(old.roll_history) + 1
                /\ SubSeq(rollData'[s].roll_history, 1, Len(old.roll_history))
                      = old.roll_history
                /\ rollData'[s].roll_history[Len(old.roll_history) + 1].roll_number
                      = old.roll_count + 1

C3_IncrementContract == [][C3_Step]_varsText

\* an increment_roll_count made at roll_count 6 has returned
C3_Witness ==
    /\ call.op = "increment_roll_count"
    /\ call.was = 6
    /\ call.ret = 6
    /\ Has(rollData, call.sym)

\* C4: can_roll allows exactly when the symbol has no record or its
\* roll_count is below 6, its third component is the current roll_count (0
\* when absent); at 5 it returns (true, 1 remaining, 5), at 6 (false, max, 6).
C4_CanRoll ==
    call.op = "can_roll" =>
        LET absent == ~Has(rollData, call.sym)
            n      == IF absent THEN 0 ELSE rollData[call.sym].roll_count
        IN /\ call.ret[1] = (absent \/ n < 6)
           /\ call.ret[3] = n
           /\ n = 5 => call.ret = <<TRUE, <<"remaining", 5, 1>>, 5>>
           /\ n = 6 => call.ret = <<FALSE, <<"max_reached", 6>>, 6>>

\* can_roll has refused a symbol at roll_count 6
C4_Witness ==
    /\ call.op = "can_roll"
    /\ Has(rollData, call.sym)
    /\ rollData[call.sym].roll_count = 6
    /\ call.ret[1] = FALSE

\* C5: once check_stop_triggered has returned true for a record (the record's
\* triggered flag is set by exactly those calls), every later
\* check_stop_triggered call on that record returns true.
C5_TriggeredLatches ==
    (/\ call.op = "check_stop_triggered"
     /\ Has(trailing_stops, call.sym)
     /\ trailing_stops[call.sym].triggered)
        => call.ret = TRUE

\* C6: initialize_stop sets the stop at entry -/+ atr * multiplier and the
\* tracked extreme at entry; update_stop at a new extreme sets the stop to the
\* more favourable of the old stop and price -/+ atr * multiplier, and leaves
\* it unchanged otherwise; check_stop_triggered returns true exactly when the
\* price is at or beyond the stop.
C6_Step ==
    /\ call'.op = "initialize_stop" =>
          LET r == trailing_stops'[call'.sym]
              E == call'.arg[2]
              A == call'.arg[3]
          IN IF call'.arg[1] = "LONG"
             THEN /\ r.current_stop = E - A * r.atr_multiplier
                  /\ r.highest_price = E
             ELSE /\ r.current_stop = E + A * r.atr_multiplier
                  /\ r.lowest_price = E
    /\ (call'.op = "update_stop" /\ Has(trailing_stops, call'.sym)) =>
          LET old == trailing_stops[call'.sym]
              new == trailing_stops'[call'.sym]
              H   == call'.arg[1]
              A   == call'.arg[2]
          IN IF old.side = "LONG"
             THEN new.current_stop =
                     IF H > old.highest_price
                     THEN Max(old.current_stop, H - A * old.atr_multiplier)
                     ELSE old.current_stop
             ELSE new.current_stop =
                     IF H < old.lowest_price
                     THEN Min(old.current_stop, H + A * old.atr_multiplier)
                     ELSE old.current_stop
    /\ (call'.op = "check_stop_triggered" /\ Has(trailing_stops, call'.sym)) =>
          LET old == trailing_stops[call'.sym] IN
          call'.ret = IF old.side = "LONG"
                      THEN call'.arg[1] <= old.current_stop
                      ELSE call'.arg[1] >= old.current_stop

C6_TrailingStopContract == [][C6_Step]_varsText

\* the instance: entry 100, ATR 2, multiplier 2: stop 96, 106 after the high
\* of 110, and the check at 104 triggers with the stop still at 106
C6_Witness ==
    /\ call.op = "check_stop_triggered"
    /\ call.arg = <<104>>
    /\ call.ret = TRUE
    /\ Has(trailing_stops, call.sym)
    /\ LET r == trailing_stops[call.sym] IN
          /\ r.side = "LONG"
          /\ r.entry_price = 100
          /\ r.atr = 2
          /\ r.atr_multiplier = 2
          /\ r.initial_stop = 96
          /\ r.highest_price = 110
          /\ r.current_stop = 106
          /\ r.triggered

\* the open records of a symbol in a ledger
OpenRecords(ledger, symbol) ==
    {j \in 1..Len(ledger) :
        /\ ledger[j].symbol = symbol
        /\ ledger[j].action \in {"OPEN_LONG", "OPEN_SHORT"}
        /\ ledger[j].pnl = None}

\* C7 as claimed: a record_trade_close right after a record_trade_close of
\* the same symbol that returned, returns 0 and changes no record, whatever
\* the ledger held.
C7_OriginalStep ==
    (/\ call.op = "record_trade_close"
     /\ call.ret # Raised
     /\ call'.op = "record_trade_close"
     /\ call'.sym = call.sym)
        => (trades' = trades /\ call'.ret = 0)

C7_SecondCloseAlwaysNoOp == [][C7_OriginalStep]_varsText

\* C7 amended: when the symbol had at most one open record before the first
\* close and the first close returned, a record_trade_close of the same symbol
\* right after it returns 0 and changes no record.
C7_AmendedStep ==
    (/\ call.op = "record_trade_close"
     /\ call.ret # Raised
     /\ call.open_before <= 1
     /\ call'.op = "record_trade_close"
     /\ call'.sym = call.sym)
        => (trades' = trades /\ call'.ret = 0)

C7_SecondCloseNoOp == [][C7_AmendedStep]_varsText

\* a close that resolved the symbol's only open record, followed by a second
\* close of the symbol that returned 0
C7_Witness ==
    /\ call.op = "record_trade_close"
    /\ call.open_before = 0
    /\ call.ret = 0
    /\ \E j \in 1..Len(trades) :
          /\ trades[j].symbol = call.sym
          /\ trades[j].action \in {"OPEN_LONG", "OPEN_SHORT"}
          /\ trades[j].pnl # None
          /\ trades[j].close_price # None

\* C8: record_trade_close leaves the ledger length and every record unchanged
\* except at most one: the last record of that symbol with an opening action
\* and a null pnl, of which it sets pnl (and the close price) only.
C8_Step ==
    call'.op = "record_trade_close" =>
        /\ Len(trades') = Len(trades)
        /\ \A j \in 1..Len(trades) :
              trades'[j] # trades[j] =>
                 /\ j \in OpenRecords(trades, call'.sym)
                 /\ \A k \in OpenRecords(trades, call'.sym) : k <= j
                 /\ trades'[j].pnl # None
                 /\ trades'[j] = [trades[j] EXCEPT !.pnl = trades'[j].pnl,
                                                   !.close_price = call'.arg[1]]

C8_CloseFrame == [][C8_Step]_varsText

\* a close resolved the later of two open records of a symbol, with a record
\* of another symbol in the ledger: the earlier one is still open
C8_Witness ==
    /\ call.op = "record_trade_close"
    /\ call.open_before = 2
    /\ call.ret # Raised
    /\ Cardinality(OpenRecords(trades, call.sym)) = 1
    /\ \E i \in OpenRecords(trades, call.sym), j \in 1..Len(trades) :
          /\ i < j
          /\ trades[j].symbol = call.sym
          /\ trades[j].close_price = call.arg[1]
    /\ \E k \in 1..Len(trades) : trades[k].symbol # call.sym

\* C9: closing an open record with price p, quantity q and leverage l at close
\* price c returns (c - p) * q * l for OPEN_LONG and (p - c) * q * l for
\* OPEN_SHORT, hence 0 when c = p.
C9_Step ==
    (call'.op = "record_trade_close" /\ call'.ret # Raised) =>
        \A j \in 1..Len(trades) :
            trades'[j] # trades[j] =>
                LET p == trades[j].price
                    q == trades[j].quantity
                    l == trades[j].leverage
                    c == call'.arg[1]
                IN /\ trades[j].action = "OPEN_LONG" => call'.ret = (c - p) * q * l
                   /\ trades[j].action = "OPEN_SHORT" => call'.ret = (p - c) * q * l
                   /\ c = p => call'.ret = 0

C9_ClosePnl == [][C9_Step]_varsText

\* a leveraged short closed at a loss: (100 - 101) * 2000 * 3
C9_Witness ==
    /\ call.op = "record_trade_close"
    /\ call.ret = -6000
    /\ \E j \in 1..Len(trades) :
          /\ trades[j].symbol = call.sym
          /\ trades[j].action = "OPEN_SHORT"
          /\ trades[j].leverage = 3
          /\ trades[j].close_price = 101
          /\ trades[j].pnl = -6000

\* C10: calculate_position_size returns 0 whenever stop_loss_price equals
\* entry_price, for every balance and risk fraction.
C10_ZeroOnEqualStop ==
    (call.op = "calculate_position_size" /\ call.arg[2] = call.arg[3])
        => call.ret = 0

\* a call with stop equal to a zero entry price and a non-zero balance
C10_Witness ==
    /\ call.op = "calculate_position_size"
    /\ call.arg[2] = call.arg[3]
    /\ call.arg[2] = 0
    /\ call.arg[1] # 0
    /\ call.ret = 0

\* C11: for a positive balance and entry price and a stop different from entry,
\* calculate_position_size returns (balance * riskPct) / |entry - stop| (rounded
\* to 3 decimals) when that quantity's notional is within balance *
\* max_position_size, and in every case a quantity whose notional is not above
\* that cap.  Quantities are thousandths of a unit.
C11_PositionSizeContract ==
    (/\ call.op = "calculate_position_size"
     /\ call.arg[1] > 0
     /\ call.arg[2] > 0
     /\ call.arg[3] # call.arg[2])
        => LET balance == call.arg[1]
               entry   == call.arg[2]
               risk    == IF call.arg[4] = None THEN 2 ELSE call.arg[4]
               dist    == IF entry > call.arg[3]
                          THEN entry - call.arg[3] ELSE call.arg[3] - entry
               q       == call.ret
           IN /\ q # Raised
              \* within the cap: q is 10 * balance * risk / dist, to the nearest
              /\ balance * risk * entry <= balance * 10 * dist
                    => /\ 2 * q * dist - 20 * balance * risk <= dist
                       /\ 20 * balance * risk - 2 * q * dist <= dist
              \* notional q / 1000 * entry never above balance * 10 / 100
              /\ q * entry <= 100 * balance

\* the ceilings of the trading session, as fractions cross-multiplied
DailyLossViolated(pnl, initial) == pnl < 0 /\ -pnl * 100 > 5 * initial
DrawdownViolated(peak, balance) == (peak - balance) * 100 > 15 * peak
TradeCountViolated(ntrades) == ntrades >= MaxDailyTrades

\* the pair the ordered checks yield: the reason of the first violated one
OrderedVerdict(pnl, initial, peak, balance, ntrades) ==
    IF DailyLossViolated(pnl, initial) THEN <<FALSE, "daily_loss">>
    ELSE IF DrawdownViolated(peak, balance) THEN <<FALSE, "max_drawdown">>
    ELSE IF TradeCountViolated(ntrades) THEN <<FALSE, "daily_trades">>
    ELSE <<TRUE, "allowed">>

\* C12: check_trading_allowed(balance) raises peak_balance to balance before
\* the drawdown comparison, checks the daily-loss ceiling, the max-drawdown
\* ceiling and the trade-count ceiling in that order, and returns allowed =
\* true iff none is violated, else the reason of the first violated check.
C12_Step ==
    call'.op = "check_trading_allowed" =>
        /\ peak_balance' = Max(peak_balance, call'.arg[1])
        /\ ~call'.raised
        /\ call'.ret = OrderedVerdict(daily_pnl, initial_balance', peak_balance',
                                      call'.arg[1], daily_trades)

C12_CheckOrder == [][C12_Step]_varsText

\* C13: check_trading_allowed and validate_order return a (bool, reason) pair
\* and never raise, for every input and session state, a zero balance and a
\* negative daily_pnl recorded before the first balance included.
C13_NeverRaises ==
    call.op \in {"check_trading_allowed", "validate_order"} =>
        /\ ~call.raised
        /\ Len(call.ret) = 2
        /\ call.ret[1] \in BOOLEAN

\* C14: validate_order evaluates check_trading_allowed, the open-position
\* limit (open_positions >= max_open_positions), the leverage limit (leverage
\* > max_leverage) and the position-size limit (quantity * price / balance >
\* max_position_size) in this order, returns the reason of the first failing
\* check, and valid = true iff all four pass.
C14_Step ==
    call'.op = "validate_order" =>
        LET quantity == call'.arg[1]
            price    == call'.arg[2]
            balance  == call'.arg[3]
            nopen    == call'.arg[4]
            leverage == call'.arg[5]
            allowed  == OrderedVerdict(daily_pnl, initial_balance', peak_balance',
                                       balance, daily_trades)
        IN /\ ~call'.raised
           /\ call'.ret =
                 IF ~allowed[1] THEN allowed
                 ELSE IF nopen >= 10 THEN <<FALSE, "max_open_positions">>
                 ELSE IF leverage > 10 THEN <<FALSE, "leverage">>
                 ELSE IF quantity * price > 100 * balance
                 THEN <<FALSE, "position_size">>
                 ELSE <<TRUE, "valid">>

C14_ValidateOrder == [][C14_Step]_varsText

\* C15: assess_position_risk, get_portfolio_risk_summary and
\* suggest_position_adjustment leave daily_pnl, daily_trades, peak_balance and
\* initial_balance unchanged; daily_pnl and daily_trades change only through
\* update_daily_pnl, increment_trade_count and reset_daily_metrics.
C15_Step ==
    /\ call'.op \in {"assess_position_risk", "get_portfolio_risk_summary",
                     "suggest_position_adjustment"}
          => /\ daily_pnl' = daily_pnl
             /\ daily_trades' = daily_trades
             /\ peak_balance' = peak_balance
             /\ initial_balance' = initial_balance
    /\ (daily_pnl' # daily_pnl \/ daily_trades' # daily_trades)
          => call'.op \in {"update_daily_pnl", "increment_trade_count",
                           "reset_daily_metrics"}

C15_AssessmentsPure == [][C15_Step]_varsText

\* C16: execute_roll_strategy consults can_roll before anything else: when it
\* refuses, the call returns its reason, hands no order to the exchange and
\* leaves the roll ledger alone.  A call counts one roll exactly when its
\* add-on order succeeded: the symbol's roll_count afterwards is the count
\* before (0 when the call initialised the record) plus one for a succeeded
\* order, with one history entry per roll, and nothing else moves the count,
\* so the count is the number of succeeded roll orders since the record was
\* initialised.
C16_Step ==
    IF call'.op = "execute_roll_strategy"
    THEN LET s == call'.sym
             base == IF call'.initialised THEN 0 ELSE call'.was
         IN /\ ~CanRoll(rollData, s)[1] =>
                  /\ call'.orders = <<>>
                  /\ ~call'.succeeded
                  /\ call'.ret = [success |-> FALSE, reason |-> CanRoll(rollData, s)[2]]
                  /\ UNCHANGED <<rollData, rollFile, trades>>
            /\ call'.initialised => CanRoll(rollData, s)[1] /\ call'.was = 0
            /\ call'.succeeded <=> call'.ret.success
            /\ GetRollCount(rollData', s) = base + (IF call'.succeeded THEN 1 ELSE 0)
            /\ Len(GetRollHistory(rollData', s)) =
                   (IF call'.initialised THEN 0 ELSE Len(GetRollHistory(rollData, s)))
                   + (IF call'.succeeded THEN 1 ELSE 0)
            /\ GetRollCount(rollData', s) <= MaxRollCount
    ELSE rollData' = rollData

C16_RollCountsOrders == [][C16_Step]_varsText

\* six add-on orders succeeded and were counted, and the next call was refused
C16_Witness ==
    /\ call.op = "execute_roll_strategy"
    /\ call.was = MaxRollCount
    /\ ~call.ret.success
    /\ call.orders = <<>>
    /\ Len(GetRollHistory(rollData, call.sym)) = MaxRollCount

\* C17: when the orchestrator has fully closed a symbol's position (the close
\* branch ran and close_position returned), the symbol has no roll record any
\* more: its roll_count reads 0, its roll_history is empty and it has no
\* original entry price left over from the closed position.
C17_CloseClearsRollState ==
    (call.op = "process_symbol_close" /\ call.ret.success) =>
        /\ ~Has(rollData, call.sym)
        /\ GetRollCount(rollData, call.sym) = 0
        /\ GetRollHistory(rollData, call.sym) = <<>>
        /\ GetOriginalEntryPrice(rollData, call.sym) = None

\* C18: every opening order analyze_and_trade hands to the exchange is one
\* that validate_order accepts for the balance and price it was sized with:
\* trading is allowed, the leverage is at most max_leverage and the position
\* value is at most max_position_size of the balance (the symbol has no
\* position, and no other open position is counted).
C18_OrdersValidated ==
    call.op = "analyze_and_trade" =>
        \A i \in DOMAIN call.orders :
            call.orders[i].side \in Sides =>
                LET balance == call.arg[2]
                    verdict == ValidateOrder(
                                   CheckTradingAllowed(daily_pnl, initial_balance,
                                                       peak_balance, daily_trades, balance),
                                   call.orders[i].quantity, call.arg[3], balance, 0,
                                   call.orders[i].leverage)
                IN ~verdict.raised /\ verdict.ret[1]

\* C19: after a mutating RollTracker call has returned (initialize_position,
\* an increment_roll_count that counted, update_original_entry_price,
\* clear_symbol), whatever the file write did, a RollTracker constructed on
\* the file loads the state the first one holds in memory.
C19_FileEqualsMemory ==
    (\/ call.op \in {"initialize_position", "update_original_entry_price", "clear_symbol"}
     \/ call.op = "increment_roll_count" /\ call.ret = call.was + 1)
        => Load(rollFile) = rollData

\* C20: a tracker restarted after the process died, between two calls or
\* inside a save, starts from the memory the dead process had just before
\* or just after the interrupted mutation; in particular it does not start
\* empty when the file held a ledger and the mutation did not empty it.
C20_RestartLoadsLastState ==
    call.op \in {"roll_tracker_restart", "performance_tracker_restart"} =>
        /\ call.ret \in {call.before, call.after}
        /\ (call.before # <<>> /\ call.after # <<>>) => call.ret # <<>>

\* C22: a record whose triggered flag is set is terminal: an update_stop call
\* on it changes neither current_stop nor the tracked extreme, and after an
\* update_stop or a check_stop_triggered call the flag is still set.
C22_Step ==
    \A s \in TSSymbols :
        (/\ Has(trailing_stops, s)
         /\ trailing_stops[s].triggered
         /\ call'.op \in {"update_stop", "check_stop_triggered"}
         /\ call'.sym = s)
            => /\ Has(trailing_stops', s)
               /\ trailing_stops'[s].triggered
               /\ trailing_stops'[s].current_stop = trailing_stops[s].current_stop
               /\ trailing_stops'[s].highest_price = trailing_stops[s].highest_price
               /\ trailing_stops'[s].lowest_price = trailing_stops[s].lowest_price

C22_TriggeredTerminal == [][C22_Step]_varsText

\* C23: the snapshot series never holds more than 10,000 points, and an
\* update_portfolio_value call that appends leaves the most recent
\* min(n, 10,000) points in order: the new value last, before it the points the
\* series held, of which only the oldest is dropped; no other call changes it.
C23_Step ==
    IF call'.op = "update_portfolio_value" /\ call'.ret = None
    THEN LET n    == Len(portfolio_values) + 1
             kept == Min(n, SnapshotCap)
         IN /\ Len(portfolio_values') = kept
            /\ portfolio_values'[kept].value = call'.arg[1]
            /\ \A i \in 1..(kept - 1) :
                  portfolio_values'[i] = portfolio_values[n - kept + i]
    ELSE portfolio_values' = portfolio_values

C23_SnapshotsCapped ==
    /\ [](Len(portfolio_values) <= SnapshotCap)
    /\ [][C23_Step]_varsText

\* a full series whose oldest points have been evicted and which holds both
\* explored values
C23_Witness ==
    /\ call.op = "update_portfolio_value"
    /\ Len(portfolio_values) = SnapshotCap
    /\ portfolio_values[1].time > 2
    /\ portfolio_values[SnapshotCap].value = 9000
    /\ portfolio_values[SnapshotCap - 1].value = 11000

\* C24: calculate_metrics never raises, whatever the initial capital, the
\* balance and the positions.
C24_MetricsNeverRaise ==
    call.op = "calculate_metrics" => ~call.raised

\* C21: a RollTracker constructed on a document that does not parse holds no
\* symbol, and a PerformanceTracker constructed on one holds no trade and no
\* snapshot: each starts in the state of a fresh instance, from which every
\* later call proceeds.
C21_Step ==
    /\ (call'.op = "roll_tracker_restart" /\ ToString(rollFile') = ToString(Partial))
          => ToString(rollData') = ToString(EmptyDict)
    /\ (call'.op = "performance_tracker_restart"
           /\ ToString(perfFile') = ToString(Partial))
          => /\ ToString(trades') = ToString(<<>>)
             /\ ToString(portfolio_values') = ToString(<<>>)

C21_CorruptedStartsEmpty == [][C21_Step]_varsText

\* both documents do not parse, and the PerformanceTracker that held a trade and
\* a snapshot has just been constructed again on its document
C21_Witness ==
    /\ call.op = "performance_tracker_restart"
    /\ ToString(perfFile) = ToString(Partial)
    /\ ToString(rollFile) = ToString(Partial)
    /\ call.before # <<>>
    /\ call.snapshots_before # <<>>
    /\ trades = <<>>
    /\ portfolio_values = <<>>
    /\ rollData = EmptyDict

\* C29: the leverage of every opening order analyze_and_trade hands to the
\* exchange is within [1, MAX_LEVERAGE] = [1, 20].
C29_LeverageWithinMax ==
    call.op = "analyze_and_trade" =>
        \A i \in DOMAIN call.orders :
            call.orders[i].side \in Sides =>
                /\ call.orders[i].leverage >= 1
                /\ call.orders[i].leverage <= EngineMaxLeverage

\* C30: the add-on order of execute_roll_strategy commits no more margin than
\* the amount set aside, quantity * price / leverage <= reinvest_amount, and
\* that amount is at most 70 % of the profit net of the 0.05 % fee.  Quantity
\* and amount are in thousandths; half a thousandth of each is allowed for the
\* rounding to that unit.
C30_MarginWithinReinvest ==
    call.op = "roll_sizing" =>
        LET sizing == call.ret
            unrealized_pnl == call.arg[1]
        IN /\ (2 * sizing.new_position_qty - 1) * sizing.current_price
                  <= (2 * sizing.reinvest_amount + 1) * sizing.leverage
           /\ (2 * sizing.reinvest_amount - 1) * 1000 <= 2 * unrealized_pnl * 9995 * 70

\* C28: a cycle that opens a position adds exactly one open record (opening
\* action, null pnl) of the symbol to the ledger and a cycle that closes it
\* resolves one, so that after one open and then one close the ledger holds
\* no more open records of the symbol than before the open.
C28_Step ==
    \A s \in BotSymbols :
        /\ (/\ call'.op = "analyze_and_trade"
            /\ call'.sym = s
            /\ call'.ret.action \in {"OPEN_LONG", "OPEN_SHORT"})
              => Cardinality(OpenRecords(trades', s))
                     = Cardinality(OpenRecords(trades, s)) + 1
        /\ (/\ call'.op = "process_symbol_close"
            /\ call'.sym = s
            /\ call'.ret.success)
              => Cardinality(OpenRecords(trades', s))
                     = Max(0, Cardinality(OpenRecords(trades, s)) - 1)

C28_OneOpenRecordPerPosition == [][C28_Step]_varsText

\* C25: once a close of a symbol's position has succeeded, by the bot's close
\* branch or by the engine's, no protective order of the symbol is pending.
C25_CloseCancelsProtectiveOrders ==
    (call.op \in {"process_symbol_close", "execute_trade_close"} /\ call.ret.success)
        => PendingOf(pending_orders, call.sym) = {}

\* C26: a symbol that has a pending stop-loss order before a call of
\* move_stop_to_breakeven has one after it, whatever the call's outcome.
C26_Step ==
    \A s \in BotSymbols :
        (/\ call'.op = "move_stop_to_breakeven"
         /\ call'.sym = s
         /\ <<s, "STOP_MARKET">> \in pending_orders)
            => \E o \in PendingOf(pending_orders', s) : o[2] \in {"STOP_MARKET", "STOP_LOSS"}

C26_StopNeverLost == [][C26_Step]_varsText

\* C27: with the dashboard running as a process of its own, every trade the
\* bot has recorded is in the persisted document, as the bot holds it, in
\* every later state.
C27_RecordedTradesPersist ==
    \A i \in DOMAIN trades :
        /\ i <= Len(LoadData(perfFile).trades)
        /\ LoadData(perfFile).trades[i] = trades[i]

\* C31: check_trading_allowed, validate_order and get_portfolio_risk_summary
\* raise peak_balance to the balance they are passed and never lower it, no
\* other call changes it (reset_daily_metrics included), so it is the highest
\* balance passed so far; and check_trading_allowed(b) returns not-allowed
\* whenever (peak_balance - b) / peak_balance exceeds max_drawdown.
C31_Step ==
    IF call'.op \in {"check_trading_allowed", "validate_order", "get_portfolio_risk_summary"}
    THEN LET b == CASE call'.op = "check_trading_allowed" -> call'.arg[1]
                    [] call'.op = "validate_order" -> call'.arg[3]
                    [] OTHER -> call'.arg[2]
         IN /\ peak_balance' = Max(peak_balance, b)
            /\ (/\ call'.op = "check_trading_allowed"
                /\ peak_balance' > 0
                /\ (peak_balance' - b) * 100 > MaxDrawdownPct * peak_balance')
                  => (~call'.raised /\ ~call'.ret[1])
    ELSE peak_balance' = peak_balance

C32_TiersConsumeRemaining ==
    call.op = "set_multiple_take_profits" =>
        LET total_quantity == call.arg[3]
            tp_levels == call.arg[4]
            results == call.ret
            taken(i) == Sum([j \in 1..(i - 1) |-> results[j].quantity])
        IN /\ Len(results) = Len(tp_levels)
           /\ \A i \in 1..Len(results) :
                 /\ results[i].quantity \in
                        TierQuantity(total_quantity - taken(i), tp_levels[i].close_pct)
                 /\ taken(i) + results[i].quantity <= total_quantity

\* C33: when adjust_leverage_by_volatility succeeds, the leverage it recommends
\* is min(max_leverage, base + 2) for a volatility below 1%, base for a
\* volatility from 1% to 3% inclusive, and max(min_leverage, base - 2) for a
\* volatility above 3%, the volatility being ATR / price * 100.
C33_LeverageByVolatility ==
    (call.op = "adjust_leverage_by_volatility" /\ call.ret.success) =>
        LET atr == call.arg[1]
            current_price == call.arg[2]
            base_leverage == call.arg[3]
            min_leverage == call.arg[4]
            max_leverage == call.arg[5]
        IN call.ret.leverage =
               IF atr * 100 < current_price THEN Min(max_leverage, base_leverage + 2)
               ELSE IF atr * 100 <= 3 * current_price THEN base_leverage
               ELSE Max(min_leverage, base_leverage - 2)

\* C34: can_roll_position reports a position eligible only when its profit
\* percentage is at least the threshold and its margin is at most 80% of the
\* available balance; the usable amount it reports is the unrealized profit
\* times the balance tier's fraction (65% below $100, 60% below $500, else
\* 50%) less the 0.05% fee, and a usable amount below $5 is rejected.
C34_RollEligibility ==
    (call.op = "can_roll_position" /\ call.arg[1] /\ call.arg[6] # Raised) =>
        LET unrealized_pnl == call.arg[4]
            leverage == call.arg[5]
            available_balance == call.arg[6]
            position_value == Abs(call.arg[2]) * call.arg[3]
            tier == IF available_balance < 100 THEN 65
                    ELSE IF available_balance < 500 THEN 60 ELSE 50
            \* profit * tier% * (1 - 0.0005), in millionths of a cent
            net_usable == unrealized_pnl * tier * 9995
        IN /\ call.ret.eligible =>
                 /\ unrealized_pnl * 100 * 1000 >= call.arg[7] * position_value
                 /\ position_value * 10 <= available_balance * 8 * leverage * 1000
                 /\ call.ret.usable_pnl * 10000 = net_usable
           /\ net_usable < 5 * 100 * 10000 => ~call.ret.eligible

\* C35: the stop order move_stop_to_breakeven asks for, whatever the profit
\* trigger and the offset (both at least 0), has its stop price on the
\* profitable side of the entry price and not yet crossed by the mark price:
\* entry <= stop < mark for a long position, mark < stop <= entry for a short.
C35_BreakevenStopBetweenEntryAndMark ==
    (call.op = "move_stop_to_breakeven" /\ call.requested # <<>>) =>
        LET position_amt == call.arg[1]
            mark == call.arg[2] * 1000
            entry == call.arg[3] * 1000
            stop == call.requested[1].stop_price
        IN IF position_amt > 0
           THEN entry <= stop /\ stop < mark
           ELSE mark < stop /\ stop <= entry

\* the records of the symbols other than the one the call is about are the
\* ones they were
OtherRecordsKept(symbol) ==
    \A other \in Symbols \ {symbol} :
        /\ Has(rollData', other) <=> Has(rollData, other)
        /\ Has(rollData, other) => rollData'[other] = rollData[other]

\* C36: initialize_position(symbol, ...) leaves the symbol with roll_count 0,
\* an empty roll_history and the given entry price, quantity and side, whatever
\* record it had before, and changes no other symbol's record.
C36_Step ==
    call'.op = "initialize_position" =>
        /\ Has(rollData', call'.sym)
        /\ rollData'[call'.sym].roll_count = 0
        /\ rollData'[call'.sym].roll_history = <<>>
        /\ rollData'[call'.sym].original_entry_price = call'.arg[1]
        /\ rollData'[call'.sym].original_position_amt = Abs(call'.arg[2])
        /\ rollData'[call'.sym].side = call'.arg[3]
        /\ GetRollCount(rollData', call'.sym) = 0
        /\ OtherRecordsKept(call'.sym)

C36_InitializeResets == [][C36_Step]_varsText

\* a symbol initialised afresh next to a symbol that stays at the limit of
\* six rolls, with its six history entries
C36_Witness ==
    /\ call.op = "initialize_position"
    /\ call.sym = "BTCUSDT"
    /\ rollData["BTCUSDT"].roll_count = 0
    /\ rollData["BTCUSDT"].side = "SHORT"
    /\ Has(rollData, "ETHUSDT")
    /\ rollData["ETHUSDT"].roll_count = MaxRollCount
    /\ Len(rollData["ETHUSDT"].roll_history) = MaxRollCount

\* C37: after clear_symbol(s) the symbol has no record: get_roll_count gives 0
\* and can_roll gives (true, ..., 0); clearing a symbol that has no record (a
\* second clear included) changes nothing, in memory or on disk; no other
\* symbol's record is affected.
C37_Step ==
    call'.op = "clear_symbol" =>
        /\ ~Has(rollData', call'.sym)
        /\ GetRollCount(rollData', call'.sym) = 0
        /\ CanRoll(rollData', call'.sym)[1]
        /\ CanRoll(rollData', call'.sym)[3] = 0
        /\ ~Has(rollData, call'.sym) => (rollData' = rollData /\ rollFile' = rollFile)
        /\ OtherRecordsKept(call'.sym)

C37_ClearIsIdempotentDelete == [][C37_Step]_varsText

\* a symbol cleared while the other symbol keeps a record with rolls
C37_Witness ==
    /\ call.op = "clear_symbol"
    /\ call.sym = "BTCUSDT"
    /\ ~Has(rollData, "BTCUSDT")
    /\ Has(rollData, "ETHUSDT")
    /\ rollData["ETHUSDT"].roll_count = 2

\* C38: update_original_entry_price(symbol, p) changes only the original
\* entry price of the symbol's record: roll_count and roll_history stay,
\* get_original_entry_price then returns p, no other symbol is touched, and a
\* symbol without a record gets none.
C38_Step ==
    call'.op = "update_original_entry_price" =>
        /\ IF Has(rollData, call'.sym)
           THEN /\ Has(rollData', call'.sym)
                /\ rollData'[call'.sym] =
                       [rollData[call'.sym] EXCEPT !.original_entry_price = call'.arg[1]]
                /\ GetRollCount(rollData', call'.sym) = GetRollCount(rollData, call'.sym)
                /\ GetOriginalEntryPrice(rollData', call'.sym) = call'.arg[1]
           ELSE /\ rollData' = rollData
                /\ rollFile' = rollFile
        /\ OtherRecordsKept(call'.sym)

C38_UpdateTouchesOnlyEntryPrice == [][C38_Step]_varsText

\* the entry price of a record with three rolls behind it moved to 105
C38_Witness ==
    /\ call.op = "update_original_entry_price"
    /\ call.arg = <<105>>
    /\ Has(rollData, call.sym)
    /\ rollData[call.sym].original_entry_price = 105
    /\ rollData[call.sym].roll_count = 3
    /\ Len(rollData[call.sym].roll_history) = 3

\* C39: every trailing-stop record, after any sequence of calls with ATR >= 0,
\* keeps its stop between where it started and the best price seen: a LONG
\* record has initial_stop <= current_stop <= highest_price and highest_price
\* >= entry_price, a SHORT record has lowest_price <= current_stop <=
\* initial_stop and lowest_price <= entry_price.
C39_StopWithinEnvelope ==
    \A symbol \in DOMAIN trailing_stops :
        LET r == trailing_stops[symbol] IN
        /\ r.side = "LONG" =>
              /\ r.initial_stop <= r.current_stop
              /\ r.current_stop <= r.highest_price
              /\ r.highest_price >= r.entry_price
        /\ r.side = "SHORT" =>
              /\ r.lowest_price <= r.current_stop
              /\ r.current_stop <= r.initial_stop
              /\ r.lowest_price <= r.entry_price

\* a SHORT record whose stop an update with ATR 0 has brought down onto the
\* new low, below the entry price
C39_Witness ==
    /\ call.op = "update_stop"
    /\ call.arg[2] = 0
    /\ Has(trailing_stops, call.sym)
    /\ LET r == trailing_stops[call.sym] IN
          /\ r.side = "SHORT"
          /\ r.lowest_price = call.arg[1]
          /\ r.current_stop = r.lowest_price
          /\ r.lowest_price < r.entry_price
          /\ r.current_stop < r.initial_stop

====
